---- MODULE Spec2Model ----
(***************************************************************************)
(* Model of the WebGL demos of mmw18/graphics.                             *)
(*                                                                         *)
(*   Module8/webgl-HSRP.js    sphere by recursive subdivision, drawn with  *)
(*                            the painter's algorithm (page "Module8")     *)
(*   Module6/webgl-shading.js the same sphere drawn with the depth buffer  *)
(*                            (page "Module6")                             *)
(*                                                                         *)
(* Each script is the "main" of its own page, so a run of the program is a *)
(* run of one page: Init chooses the page, and the handlers of the other   *)
(* pages are disabled.  A handler runs to completion (one JavaScript       *)
(* thread), so each handler is one action.                                 *)
(*                                                                         *)
(* Two functions are also run on their own: RenderSpec calls renderSphere  *)
(* once on a mesh of a few triangles, and RefineSpec runs one call of      *)
(* refineSphere statement by statement.  SliderSpec gives the slider any   *)
(* string as its value, StartupSpec starts the pages in any environment    *)
(* (no context, shaders that fail), LoopSpec adds the browser's frame      *)
(* scheduler, GeneratorSpec runs refineSphere with numbers of Float32      *)
(* precision, and IndexSpec follows single triangles of large meshes into  *)
(* the index buffer.                                                       *)
(*                                                                         *)
(* Floating point numbers are fixed point integers: the value x stands for *)
(* x / Scale.  TLC's integers are 32 bit, which bounds Scale.  The 32 bit   *)
(* floats of a Float32Array are a coarser grid than the numbers.           *)
(***************************************************************************)
EXTENDS Integers, Sequences, FiniteSets, TLC

VARIABLES
    page,          \* which script runs on this page: "Module8" or "Module6";
                   \* or the function that is called on its own
    sphereData,    \* Module8: let sphereData (HSRP.js:36), the current mesh
    sphereBuffers, \* Module6: const sphereBuffers (shading.js:16)
    drawLog,       \* Module8: the draw submissions of the last frame, in order
    frameVertices, \* Module8: const vertices of the last frame (HSRP.js:87)
    frameIndices,  \* Module8: const indices of the last frame (HSRP.js:88)
    triangles,     \* Module8: const triangles of the last frame, sorted
    gl,            \* the WebGL context's state
    pendingFrames, \* animation-frame callbacks requested and not yet run
    frameCount,    \* frames rendered so far (capped by MaxFrames)
    sliderCount,   \* slider and click events so far (capped by MaxEvents)
    lastLevel,     \* the level of the last createSphereBuffers call
    callArgs,      \* refineSphere on its own: v1, v2, v3 and depth of the call
    callStack,     \* refineSphere on its own: its activations, innermost last
    arrays,        \* refineSphere on its own: the arrays vertices and indices
    generatorDepth, \* the recursionLevel createSphereBuffers was last called
                   \* with, a JavaScript number
    console,       \* the messages of console.error, in order
    clickedSide,   \* picking page: the side that was clicked, -1 for none
    pinkColors,    \* picking page: the global array of the cube's colors
    points,        \* gasket page: the array of the gasket's vertices
    currentDepth,  \* gasket page: the depth of the next animation frame
    timeouts       \* gasket page: the delays of the pending setTimeout calls

(***************************************************************************)
(* Bounds of the model.                                                    *)
(***************************************************************************)
\* one unit of the model's fixed point numbers is 1 / Scale
Scale == 5000
\* a number (a double) is any count of units, and a 32 bit float, the
\* element of a Float32Array, is a multiple of FloatStep units
FloatStep == 2
\* the slider delivers the levels 0 .. MaxLevel
MaxLevel == 2
\* at most MaxEvents slider events in a run
MaxEvents == 2
\* at most MaxFrames frames in a run
MaxFrames == 3
\* renderSphere on its own is given meshes of 1 .. MaxTriangles triangles
MaxTriangles == 3

(***************************************************************************)
(* Fixed point arithmetic.                                                 *)
(***************************************************************************)
Abs(x) == IF x < 0 THEN 0 - x ELSE x

\* a decimal constant of the source, given in millionths
Micro(u) == IF u < 0 THEN 0 - (((0 - u) \div 100) * Scale + 5000) \div 10000
                     ELSE ((u \div 100) * Scale + 5000) \div 10000

\* a / b rounded to the nearest integer, b > 0
RoundDiv(a, b) == IF a < 0 THEN 0 - ((2 * (0 - a) + b) \div (2 * b))
                           ELSE (2 * a + b) \div (2 * b)

RECURSIVE SqrtSearch(_, _, _)
SqrtSearch(n, lo, hi) ==
    IF lo >= hi THEN lo
    ELSE CHOOSE root \in {IF mid * mid <= n THEN SqrtSearch(n, mid, hi)
                                            ELSE SqrtSearch(n, lo, mid - 1) :
                          mid \in {(lo + hi + 1) \div 2}} : TRUE

\* Math.sqrt on an integer: the nearest integer to the square root
Sqrt(n) ==
    LET f == SqrtSearch(n, 0, 46340)
    IN  IF n - f * f > f THEN f + 1 ELSE f

\* a JavaScript array with the elements f[1], f[2], ... (all evaluated)
Array(f) == SubSeq(f, 1, Len(f))

\* the store of a number into an element of a Float32Array: the nearest float
fround(x) == RoundDiv(x, FloatStep) * FloatStep

\* new Float32Array(arr), and the Float32Array that a gl-matrix function
\* writes the numbers arr to (a stands for arr, evaluated once)
Float32Array(arr) ==
    CHOOSE out \in {Array([i \in DOMAIN a |-> fround(a[i])]) : a \in {arr}} : TRUE

(***************************************************************************)
(* gl-matrix vec3: a vector is <<x, y, z>>.                                *)
(***************************************************************************)
\* vec3.fromValues(x, y, z) with the arguments in millionths
fromValues(x, y, z) == Float32Array(<<Micro(x), Micro(y), Micro(z)>>)

\* vec3.add(out, a, b)
add(a, b) == Float32Array(<<a[1] + b[1], a[2] + b[2], a[3] + b[3]>>)

\* the numbers of a scaled by 1 / sqrt(a . a), and a when a . a = 0
unit(a) ==
    LET len == a[1] * a[1] + a[2] * a[2] + a[3] * a[3]
        root == Sqrt(len)
    IN  IF len > 0
        THEN <<RoundDiv(a[1] * Scale, root), RoundDiv(a[2] * Scale, root),
               RoundDiv(a[3] * Scale, root)>>
        ELSE a

\* vec3.normalize(out, a)
normalize(a) == Float32Array(unit(a))

(***************************************************************************)
(* The mesh generator (Module8; Module6 has the same text).                *)
(***************************************************************************)
\* JavaScript arrays count from 0
At(arr, i) == arr[i + 1]

\* JavaScript calls by value: the argument is evaluated before the body runs
\* (TLC would otherwise evaluate the chain of output arrays backwards)
ByValue(arg) == arg = arg

\* refineSphere(v1, v2, v3, depth, vertices, indices): out is the pair of the
\* output arrays [vertices, indices], and the value is the pair after the call
RECURSIVE refineSphere(_, _, _, _, _)

\* the base case with indexOffset = vertices.length, not divided by 3
refineLeafFlatOffset(v1, v2, v3, out, indexOffset) ==
    [vertices |-> out.vertices \o v1 \o v2 \o v3,
     indices  |-> out.indices \o <<3 * indexOffset, 3 * indexOffset + 1,
                                   3 * indexOffset + 2>>]

\* the base case of refineSphere: depth === 0
refineLeaf(v1, v2, v3, out, indexOffset) ==
    [vertices |-> out.vertices \o v1 \o v2 \o v3,
     indices  |-> out.indices \o <<indexOffset, indexOffset + 1, indexOffset + 2>>]

\* refineChildren without the fourth (middle) child
refineChildrenThree(v1, v2, v3, mid12, mid23, mid31, depth, out) ==
    refineSphere(v3, mid31, mid23, depth - 1,
        refineSphere(v2, mid23, mid12, depth - 1,
            refineSphere(v1, mid12, mid31, depth - 1, out)))

\* refineChildren with the second and the third child in the other order
refineChildrenSwapped(v1, v2, v3, mid12, mid23, mid31, depth, out) ==
    refineSphere(mid12, mid23, mid31, depth - 1,
        refineSphere(v2, mid23, mid12, depth - 1,
            refineSphere(v3, mid31, mid23, depth - 1,
                refineSphere(v1, mid12, mid31, depth - 1, out))))

\* the four recursive calls of refineSphere, in the order of the source: the
\* output arrays of one call are the ones the next call appends to
refineChildren(v1, v2, v3, mid12, mid23, mid31, depth, out) ==
    refineSphere(mid12, mid23, mid31, depth - 1,
        refineSphere(v3, mid31, mid23, depth - 1,
            refineSphere(v2, mid23, mid12, depth - 1,
                refineSphere(v1, mid12, mid31, depth - 1, out))))

refineSphere(v1, v2, v3, depth, out) ==
    IF ByValue(out) /\ depth = 0
    THEN refineLeaf(v1, v2, v3, out, Len(out.vertices) \div 3)
    ELSE refineChildren(v1, v2, v3, normalize(add(v1, v2)),
                        normalize(add(v2, v3)), normalize(add(v3, v1)), depth, out)

\* the starting vertices of the tetrahedron
initialA == fromValues(0, 0, -1000000)
initialB == fromValues(0, 942809, 333333)
initialC == fromValues(-816497, -471405, 333333)
initialD == fromValues(816497, -471405, 333333)

\* the default of createSphereBuffers' parameter recursionLevel
DefaultLevel == 3

(***************************************************************************)
(* The WebGL context.  A buffer handle is the buffer's position in         *)
(* g.buffers and 0 is "no buffer"; g.attrib is the buffer the position     *)
(* attribute reads, as vertexAttribPointer captured it; g.program is the   *)
(* state of the program in use: "none", "linked", or "failed" when a       *)
(* shader did not compile or the program did not link.                     *)
(***************************************************************************)
\* the state of a fresh context: every capability is disabled
initializeWebGLContext ==
    [buffers |-> <<>>, arrayBuffer |-> 0, elementArrayBuffer |-> 0,
     attrib |-> 0, depthTest |-> FALSE, cullFace |-> FALSE,
     uColor |-> <<>>, program |-> "none"]

\* setupShaders(glContext): the shaders are compiled and the program linked
\* and used, whatever the context says of the outcome, which is status
setupShaders(g, status) == [g EXCEPT !.program = status]

\* gl.createBuffer(): the new buffer's handle is Len(g.buffers) + 1
createBuffer(g) == [g EXCEPT !.buffers = Append(@, <<>>)]

\* gl.bindBuffer(target, buffer)
bindBuffer(g, target, buffer) ==
    IF target = "ARRAY_BUFFER" THEN [g EXCEPT !.arrayBuffer = buffer]
                               ELSE [g EXCEPT !.elementArrayBuffer = buffer]

\* gl.bufferData(target, data, usage): fills the buffer bound to target
bufferData(g, target, data) ==
    LET bound == IF target = "ARRAY_BUFFER" THEN g.arrayBuffer
                                            ELSE g.elementArrayBuffer
    IN  [g EXCEPT !.buffers[bound] = data]

\* gl.vertexAttribPointer(positionAttrib, ...): the attribute reads the
\* buffer that is bound to ARRAY_BUFFER now
vertexAttribPointer(g) == [g EXCEPT !.attrib = g.arrayBuffer]

\* the two capabilities enabled instead, as Module6 has them
enableInsteadOfDisable(g) == [g EXCEPT !.depthTest = TRUE, !.cullFace = TRUE]

\* gl.disable(gl.DEPTH_TEST); gl.disable(gl.CULL_FACE)
disableDepthAndCull(g) == [g EXCEPT !.depthTest = FALSE, !.cullFace = FALSE]

\* gl.uniform4fv(colorUniform, color)
uniform4fv(g, color) == [g EXCEPT !.uColor = color]

\* an index array of 8-bit elements
Uint8Array(arr) == [i \in DOMAIN arr |-> arr[i] % 256]

\* new Uint16Array(arr): each number modulo 2^16
Uint16Array(arr) == [i \in DOMAIN arr |-> arr[i] % 65536]

\* the second half of createSphereBuffers: the two buffers are made and
\* filled, and the object is returned; mesh is the pair [vertices, indices]
uploadSphere(g, mesh) ==
    [gl  |-> bufferData(
                 bindBuffer(
                     createBuffer(
                         bufferData(
                             bindBuffer(createBuffer(g), "ARRAY_BUFFER",
                                        Len(g.buffers) + 1),
                             "ARRAY_BUFFER", Float32Array(mesh.vertices))),
                     "ELEMENT_ARRAY_BUFFER", Len(g.buffers) + 2),
                 "ELEMENT_ARRAY_BUFFER", Uint16Array(mesh.indices)),
     ret |-> [vertexBuffer |-> Len(g.buffers) + 1,
              indexBuffer |-> Len(g.buffers) + 2,
              indexCount |-> Len(mesh.indices),
              vertices |-> mesh.vertices,
              indices |-> mesh.indices]]

\* the first half of createSphereBuffers: the four faces of the tetrahedron
\* are refined into the arrays vertices and indices
refineFaces(recursionLevel) ==
    refineSphere(initialA, initialC, initialD, recursionLevel,
        refineSphere(initialA, initialD, initialB, recursionLevel,
            refineSphere(initialD, initialC, initialB, recursionLevel,
                refineSphere(initialA, initialB, initialC, recursionLevel,
                             [vertices |-> <<>>, indices |-> <<>>]))))

\* createSphereBuffers with a vertices array that is not empty at the start
\* but holds what the buffer bound to ARRAY_BUFFER holds
createSphereBuffersLeftover(g, recursionLevel) ==
    LET fresh == refineFaces(recursionLevel)
        leftover == IF g.arrayBuffer = 0 THEN <<>> ELSE g.buffers[g.arrayBuffer]
    IN  uploadSphere(g, [vertices |-> leftover \o fresh.vertices,
                         indices |-> fresh.indices])

\* createSphereBuffers(glContext, recursionLevel): the context after the
\* call (gl) and the object it returns (ret)
createSphereBuffers(g, recursionLevel) ==
    uploadSphere(g, refineFaces(recursionLevel))

(***************************************************************************)
(* gl-matrix numbers used by the painter: a division is kept as the pair   *)
(* <<numerator, denominator>>, so that x / 0 is a value (0 / 0 is NaN).    *)
(***************************************************************************)
\* the JavaScript number a / b
Divide(a, b) ==
    IF b = 0 THEN <<(IF a > 0 THEN 1 ELSE IF a < 0 THEN 0 - 1 ELSE 0), 0>>
             ELSE <<a, b>>

\* the JavaScript number of the integer n
Number(n) == <<n, 1>>

NaN == <<0, 0>>

\* the JavaScript number 1.0 - q
OneMinus(q) == IF q[2] = 0 THEN <<0 - q[1], 0>> ELSE <<q[2] - q[1], q[2]>>

IsNaN(q) == q[1] = 0 /\ q[2] = 0

\* q is the finite number a / b
IsNumber(q, a, b) == q[2] # 0 /\ q[1] * b = a * q[2]

\* q < r for finite q and r
Less(q, r) ==
    /\ q[2] # 0
    /\ r[2] # 0
    /\ IF (q[2] > 0) = (r[2] > 0) THEN q[1] * r[2] < r[1] * q[2]
                                  ELSE q[1] * r[2] > r[1] * q[2]

(***************************************************************************)
(* The slider's value is a string, here the sequence of its characters.    *)
(***************************************************************************)
DecimalDigits == <<"0", "1", "2", "3", "4", "5", "6", "7", "8", "9">>

isDigit(c) == \E d \in 1 .. 10 : DecimalDigits[d] = c

digitValue(c) == (CHOOSE d \in 1 .. 10 : DecimalDigits[d] = c) - 1

\* the decimal numeral of the natural number n
RECURSIVE numeral(_)
numeral(n) ==
    IF n < 10 THEN <<DecimalDigits[n + 1]>>
              ELSE Append(numeral(n \div 10), DecimalDigits[(n % 10) + 1])

\* the value of the longest run of digits at the start of str, after acc
RECURSIVE parseDigits(_, _)
parseDigits(str, acc) ==
    IF str = <<>> \/ ~isDigit(Head(str))
    THEN acc
    ELSE parseDigits(Tail(str), 10 * acc + digitValue(Head(str)))

\* str without the white space at its start
RECURSIVE trimStart(_)
trimStart(str) ==
    IF str # <<>> /\ Head(str) = " " THEN trimStart(Tail(str)) ELSE str

\* the digits of parseInt after white space and sign: NaN when there is none
parseUnsigned(str, sign) ==
    IF str = <<>> \/ ~isDigit(Head(str)) THEN NaN
                                         ELSE Number(sign * parseDigits(str, 0))

\* parseInt after the white space
parseSigned(str) ==
    IF str # <<>> /\ Head(str) = "-" THEN parseUnsigned(Tail(str), 0 - 1)
    ELSE IF str # <<>> /\ Head(str) = "+" THEN parseUnsigned(Tail(str), 1)
    ELSE parseUnsigned(str, 1)

\* parseInt(str, 10)
parseInt(str) == parseSigned(trimStart(str))

(***************************************************************************)
(* The camera of Module8 (and Module6).                                    *)
(***************************************************************************)
cameraRadius == 5
\* Math.sin and Math.cos of cameraTheta = PI / 6 and cameraPhi = PI / 4
sinTheta == Micro(500000)
cosTheta == Micro(866025)
sinPhi == Micro(707107)
cosPhi == Micro(707107)

targetCenter == fromValues(0, 0, 0)
cameraUpVector == fromValues(0, 1000000, 0)

cameraPosition ==
    Float32Array(<<RoundDiv(cameraRadius * sinTheta * cosPhi, Scale),
                   RoundDiv(cameraRadius * sinTheta * sinPhi, Scale),
                   cameraRadius * cosTheta>>)

\* the cross product of two vectors
cross(a, b) ==
    <<RoundDiv(a[2] * b[3] - a[3] * b[2], Scale),
      RoundDiv(a[3] * b[1] - a[1] * b[3], Scale),
      RoundDiv(a[1] * b[2] - a[2] * b[1], Scale)>>

\* the dot product of two vectors
dot(a, b) == RoundDiv(a[1] * b[1] + a[2] * b[2] + a[3] * b[3], Scale)

\* the matrix of mat4.lookAt from its three axes, in gl-matrix's column-major
\* order out[0] .. out[15]
lookAtMatrix(eye, x, y, z) ==
    Float32Array(<<x[1], y[1], z[1], 0,
                   x[2], y[2], z[2], 0,
                   x[3], y[3], z[3], 0,
                   0 - dot(x, eye), 0 - dot(y, eye), 0 - dot(z, eye), Scale>>)

\* the axes of mat4.lookAt from the axis z: x = up X z and y = z X x
lookAtAxes(eye, up, x, z) == lookAtMatrix(eye, x, unit(cross(z, x)), z)

lookAtFrom(eye, up, z) == lookAtAxes(eye, up, unit(cross(up, z)), z)

\* mat4.lookAt(out, eye, center, up)
lookAt(eye, center, up) ==
    IF eye = center
    THEN Float32Array(<<Scale, 0, 0, 0, 0, Scale, 0, 0, 0, 0, Scale, 0,
                        0, 0, 0, Scale>>)
    ELSE lookAtFrom(eye, up, unit(<<eye[1] - center[1], eye[2] - center[2],
                                    eye[3] - center[3]>>))

\* transformVertex(matrix, vertex): vec4.transformMat4 of (vertex, 1.0),
\* and its first three components
transformVertex(matrix, vertex) ==
    LET v == Float32Array(<<vertex[1], vertex[2], vertex[3], Scale>>)
        row(i) == RoundDiv(At(matrix, i) * v[1] + At(matrix, 4 + i) * v[2]
                           + At(matrix, 8 + i) * v[3] + At(matrix, 12 + i) * v[4],
                           Scale)
    IN  SubSeq(Float32Array(<<row(0), row(1), row(2), row(3)>>), 1, 3)

(***************************************************************************)
(* The painter's frame of Module8.                                         *)
(***************************************************************************)
\* the comparator the other way round: nearest first
compareDescending(a, b) == b.avgDepth - a.avgDepth

\* the comparator (a, b) => a.avgDepth - b.avgDepth
compare(a, b) == a.avgDepth - b.avgDepth

\* Array.prototype.sort(compare): the stable sort of ECMAScript 2019.  The
\* element at i goes behind the elements that compare smaller and behind the
\* equal ones that came before it.
sort(arr) ==
    LET n == Len(arr)
        before(j, i) == \/ compare(arr[j], arr[i]) < 0
                        \/ compare(arr[j], arr[i]) = 0 /\ j < i
        rank == Array([i \in 1 .. n |-> Cardinality({j \in 1 .. n : before(j, i)})])
    IN  Array([p \in 1 .. n |-> arr[CHOOSE i \in 1 .. n : rank[i] = p - 1]])

\* the for loop with the second vertex pushed twice: [...v0, ...v1, ...v1]
pushTrianglesTypo(modelViewMatrix, vertices, indices) ==
    LET n == (Len(indices) + 2) \div 3
        vec(idx) == Float32Array(<<At(vertices, idx), At(vertices, idx + 1),
                                   At(vertices, idx + 2)>>)
        tri(k) ==
            LET i == 3 * k
                v0 == vec(At(indices, i) * 3)
                v1 == vec(At(indices, i + 1) * 3)
                v2 == vec(At(indices, i + 2) * 3)
                v0_view == transformVertex(modelViewMatrix, v0)
                v1_view == transformVertex(modelViewMatrix, v1)
                v2_view == transformVertex(modelViewMatrix, v2)
            IN  [vertices |-> v0 \o v1 \o v1,
                 avgDepth |-> RoundDiv(v0_view[3] + v1_view[3] + v2_view[3], 3),
                 src |-> k]
    IN  Array([k \in 1 .. n |-> tri(k - 1)])

\* the for loop that builds the array of triangles (not sorted yet); src is
\* a history field: the number of the triangle in the mesh
pushTriangles(modelViewMatrix, vertices, indices) ==
    LET n == (Len(indices) + 2) \div 3
        vec(idx) == Float32Array(<<At(vertices, idx), At(vertices, idx + 1),
                                   At(vertices, idx + 2)>>)
        tri(k) ==
            LET i == 3 * k
                v0 == vec(At(indices, i) * 3)
                v1 == vec(At(indices, i + 1) * 3)
                v2 == vec(At(indices, i + 2) * 3)
                v0_view == transformVertex(modelViewMatrix, v0)
                v1_view == transformVertex(modelViewMatrix, v1)
                v2_view == transformVertex(modelViewMatrix, v2)
            IN  [vertices |-> v0 \o v1 \o v2,
                 avgDepth |-> RoundDiv(v0_view[3] + v1_view[3] + v2_view[3], 3),
                 src |-> k]
    IN  Array([k \in 1 .. n |-> tri(k - 1)])

\* the gradient with t = index / length
gradientByLength(index, length) ==
    LET t == Divide(index, length)
    IN  <<t, <<0, 1>>, OneMinus(t), <<1, 1>>>>

\* the gradient from red to blue
gradientReversed(index, length) ==
    LET t == Divide(index, length - 1)
    IN  <<OneMinus(t), <<0, 1>>, t, <<1, 1>>>>

\* the gradient color of the triangle at position index of length sorted ones
gradient(index, length) ==
    LET t == Divide(index, length - 1)
    IN  <<t, <<0, 1>>, OneMinus(t), <<1, 1>>>>

\* const triangleBuffer = glContext.createBuffer(): the handle of the third
\* buffer the page makes, after the two of the first createSphereBuffers
triangleBuffer == 3

\* the calls of one round of triangles.forEach before drawArrays
forEachTriangle(g, tri, index, length) ==
    vertexAttribPointer(
        bufferData(bindBuffer(uniform4fv(g, gradient(index, length)),
                              "ARRAY_BUFFER", triangleBuffer),
                   "ARRAY_BUFFER", Float32Array(tri.vertices)))

\* gl.drawArrays(gl.TRIANGLES, 0, 3): what the context draws with
drawArrays(g) ==
    [vertices |-> SubSeq(g.buffers[g.attrib], 1, 9), color |-> g.uColor,
     depthTest |-> g.depthTest, cullFace |-> g.cullFace]

\* triangles.forEach(...): the context after it and the draw submissions in
\* order.  Every round overwrites what the round before it set, so round k
\* is taken from the context before the loop.
drawSorted(g, data, sorted) ==
    [gl |-> IF Len(sorted) = 0
            THEN g
            ELSE forEachTriangle(g, sorted[Len(sorted)], Len(sorted) - 1,
                                 Len(sorted)),
     vertices |-> data.vertices,
     indices |-> data.indices,
     triangles |-> sorted,
     drawLog |-> Array([k \in 1 .. Len(sorted) |->
                          drawArrays(forEachTriangle(g, sorted[k], k - 1,
                                                     Len(sorted)))])]

\* renderSphere() up to requestAnimationFrame: the context after the frame,
\* the frame's constants vertices, indices and triangles, and its draw
\* submissions
renderSphere(g, data) ==
    drawSorted(disableDepthAndCull(g), data,
               sort(pushTriangles(lookAt(cameraPosition, targetCenter,
                                         cameraUpVector),
                                  data.vertices, data.indices)))

vars == <<page, sphereData, sphereBuffers, drawLog, frameVertices,
          frameIndices, triangles, gl, pendingFrames, frameCount, sliderCount,
          lastLevel, callArgs, callStack, arrays, generatorDepth, console,
          clickedSide, pinkColors, points, currentDepth, timeouts>>

\* the value of a variable the page does not have
None == <<>>

(***************************************************************************)
(* Page Module8: startWebGLApp() and its two callbacks.                    *)
(***************************************************************************)
\* the values of the slider at its steps: the numerals of 0 .. MaxLevel
SliderSteps == {numeral(n) : n \in 0 .. MaxLevel}

\* values an input element can also have: a negative numeral, the empty
\* string, a fraction, a word, a numeral behind white space
OtherValues ==
    {<<"-", "1">>, <<>>, <<"1", ".", "5">>, <<"a", "b", "c">>, <<" ", "2">>}

\* refineSphere called with this depth comes to depth === 0: depth - 1
\* taken again and again passes 0 only from an integer that is not negative
reachesBaseCase(depth) == ~IsNaN(depth) /\ depth[2] = 1 /\ depth[1] >= 0

\* the state at the end of startWebGLApp() of Module8: made is what
\* createSphereBuffers returned and frame is the first frame, rendered before
\* the second one is requested
started8(made, frame) ==
    /\ page = "Module8"
    /\ sphereData = made.ret
    /\ sphereBuffers = None
    /\ gl = frame.gl
    /\ frameVertices = frame.vertices
    /\ frameIndices = frame.indices
    /\ triangles = frame.triangles
    /\ drawLog = frame.drawLog
    /\ pendingFrames = 1
    /\ frameCount = 1
    /\ sliderCount = 0
    /\ lastLevel = DefaultLevel
    /\ callArgs = None
    /\ callStack = None
    /\ arrays = None
    /\ generatorDepth = Number(DefaultLevel)
    /\ console = <<>>
    /\ clickedSide = None
    /\ pinkColors = None
    /\ points = None
    /\ currentDepth = None
    /\ timeouts = None

\* a frame function that requests two callbacks
requestAnimationFrameTwice(pending) == pending + 2

\* requestAnimationFrame(renderSphere), the last statement of renderSphere:
\* one more callback is pending
requestAnimationFrame(pending) == pending + 1

firstFrame8(made) == started8(made, renderSphere(createBuffer(made.gl), made.ret))

\* startWebGLApp() with the loop started all the same
noContextKeepsLoop(script, message) ==
    /\ page = script
    /\ gl = None
    /\ console = <<message>>
    /\ clickedSide = None
    /\ pinkColors = None
    /\ points = None
    /\ currentDepth = None
    /\ timeouts = None
    /\ sphereData = None
    /\ sphereBuffers = None
    /\ frameVertices = None
    /\ frameIndices = None
    /\ triangles = None
    /\ drawLog = None
    /\ pendingFrames = 1
    /\ frameCount = 0
    /\ sliderCount = 0
    /\ lastLevel = 0
    /\ generatorDepth = None
    /\ callArgs = None
    /\ callStack = None
    /\ arrays = None

\* the state at the end of startWebGLApp() when glContext is null: the
\* message is written and the function returns
noContext(script, message) ==
    /\ page = script
    /\ gl = None
    /\ console = <<message>>
    /\ clickedSide = None
    /\ pinkColors = None
    /\ points = None
    /\ currentDepth = None
    /\ timeouts = None
    /\ sphereData = None
    /\ sphereBuffers = None
    /\ frameVertices = None
    /\ frameIndices = None
    /\ triangles = None
    /\ drawLog = None
    /\ pendingFrames = 0
    /\ frameCount = 0
    /\ sliderCount = 0
    /\ lastLevel = 0
    /\ generatorDepth = None
    /\ callArgs = None
    /\ callStack = None
    /\ arrays = None

\* startWebGLApp() of Module8 when initializeWebGLContext returns context
\* (None is null) and the program's state after setupShaders is status
startOutcome8(context, status) ==
    IF context = None
    THEN noContext("Module8",
                   "WebGL is not available on your system. Please install it and try again.")
    ELSE firstFrame8(createSphereBuffers(setupShaders(context, status),
                                         DefaultLevel))

\* startWebGLApp() of Module8 with a context and shaders that work
startWebGLApp8 == startOutcome8(initializeWebGLContext, "linked")

\* subdivisionControl.oninput of Module8 with event.target.value in values.
\* A call of createSphereBuffers whose recursion has no end throws (the call
\* stack is used up before anything is appended or any buffer made), and
\* the assignment to sphereData is not reached.
oninput8From(values) ==
    /\ page = "Module8"
    /\ gl # None
    /\ sliderCount < MaxEvents
    /\ \E value \in values :
          \E recursionLevel \in {parseInt(value)} :
              /\ generatorDepth' = recursionLevel
              /\ IF reachesBaseCase(recursionLevel)
                 THEN \E made \in {createSphereBuffers(gl, recursionLevel[1])} :
                          /\ sphereData' = made.ret
                          /\ gl' = made.gl
                          /\ lastLevel' = recursionLevel[1]
                 ELSE UNCHANGED <<sphereData, gl, lastLevel>>
    /\ sliderCount' = sliderCount + 1
    /\ UNCHANGED <<page, sphereBuffers, drawLog, frameVertices, frameIndices,
                   triangles, pendingFrames, frameCount, callArgs, callStack,
                   arrays, console,
                   clickedSide, pinkColors, points, currentDepth, timeouts>>

\* subdivisionControl.oninput of Module8, the slider at one of its steps
oninput8 == oninput8From(SliderSteps)

\* subdivisionControl.oninput of Module8, the value any string
oninputAny8 == oninput8From(SliderSteps \cup OtherValues)

\* renderSphere() with vertices and indices taken once, at the first frame,
\* and not read from sphereData in each frame
animationFrame8Stale ==
    /\ page = "Module8"
    /\ pendingFrames > 0
    /\ frameCount < MaxFrames
    /\ \E frame \in {renderSphere(gl, [vertices |-> frameVertices,
                                       indices |-> frameIndices])} :
           /\ gl' = frame.gl
           /\ frameVertices' = frame.vertices
           /\ frameIndices' = frame.indices
           /\ triangles' = frame.triangles
           /\ drawLog' = frame.drawLog
    /\ pendingFrames' = requestAnimationFrame(pendingFrames - 1)
    /\ frameCount' = frameCount + 1
    /\ UNCHANGED <<page, sphereData, sphereBuffers, sliderCount, lastLevel,
                   callArgs, callStack, arrays, generatorDepth, console,
                   clickedSide, pinkColors, points, currentDepth, timeouts>>

\* the animation-frame callback of Module8: renderSphere()
animationFrame8 ==
    /\ page = "Module8"
    /\ pendingFrames > 0
    /\ frameCount < MaxFrames
    /\ \E frame \in {renderSphere(gl, sphereData)} :
           /\ gl' = frame.gl
           /\ frameVertices' = frame.vertices
           /\ frameIndices' = frame.indices
           /\ triangles' = frame.triangles
           /\ drawLog' = frame.drawLog
    /\ pendingFrames' = requestAnimationFrame(pendingFrames - 1)
    /\ frameCount' = frameCount + 1
    /\ UNCHANGED <<page, sphereData, sphereBuffers, sliderCount, lastLevel,
                   callArgs, callStack, arrays, generatorDepth, console,
                   clickedSide, pinkColors, points, currentDepth, timeouts>>

(***************************************************************************)
(* The generator's numbers with the precision of Float32.  Here a number x *)
(* is the integer x * 2^26.  A Float32 has 24 significant bits: from 1 to  *)
(* 2 the Float32 numbers are 8 units apart, from 1/2 to 1 they are 4       *)
(* apart, from 1/4 to 1/2 they are 2 apart; below 1/4 the unit itself is   *)
(* the grid.  A long number <<high, low>> is high * 2^28 + low, so that    *)
(* squares and quotients are computed without loss.                        *)
(***************************************************************************)
\* the number 1.0
One32 == 67108864

\* 2^14 and 2^28, the halves of a long number
Half28 == 16384
Base28 == 268435456

\* the distance between the Float32 numbers of magnitude m
spacing32(m) ==
    IF m >= 2 * One32 THEN 16
    ELSE IF m >= One32 THEN 8
    ELSE IF m >= One32 \div 2 THEN 4
    ELSE IF m >= One32 \div 4 THEN 2
    ELSE 1

\* m2 half units (and more if sticky) to the nearest multiple of s units,
\* a tie to the even multiple: the rounding of a store into a Float32Array
roundEven(m2, s, sticky) ==
    LET q == m2 \div (2 * s)
        r == m2 % (2 * s)
        up == r > s \/ (r = s /\ (sticky \/ q % 2 = 1))
    IN  (IF up THEN q + 1 ELSE q) * s

\* the Float32 nearest to the magnitude m + f, where f < 1 is at least 1/2
\* iff half, and is neither 0 nor 1/2 iff sticky
froundParts(m, half, sticky) ==
    roundEven(2 * m + (IF half THEN 1 ELSE 0), spacing32(m), sticky)

\* Math.fround(n): the store of the number n into a Float32Array
fround32(n) ==
    IF n < 0 THEN 0 - froundParts(0 - n, FALSE, FALSE)
             ELSE froundParts(n, FALSE, FALSE)

\* the Float32 of the decimal literal u / 10^6, u >= 0: u * 2^26 / 10^6 is
\* u * 2^20 / 15625, divided in three steps
literalMagnitude(u) ==
    LET q0 == u \div 15625
        r0 == u % 15625
        q1 == (r0 * 1024) \div 15625
        r1 == (r0 * 1024) % 15625
        q2 == (r1 * 1024) \div 15625
        r2 == (r1 * 1024) % 15625
    IN  froundParts(q0 * 1048576 + q1 * 1024 + q2, 2 * r2 >= 15625,
                    (2 * r2) % 15625 # 0)

\* a decimal literal, in millionths, stored into a Float32Array
literal32(u) == IF u < 0 THEN 0 - literalMagnitude(0 - u) ELSE literalMagnitude(u)

\* vec3.fromValues(x, y, z) with the arguments in millionths
fromValues32(x, y, z) == <<literal32(x), literal32(y), literal32(z)>>

\* vec3.add(out, a, b)
add32(a, b) ==
    <<fround32(a[1] + b[1]), fround32(a[2] + b[2]), fround32(a[3] + b[3])>>

\* n * n as a long number, 0 <= n < 2^28
square28(n) ==
    LET a == n \div Half28
        b == n % Half28
        twice == 2 * a * b
        low == (twice % Half28) * Half28 + b * b
    IN  <<a * a + twice \div Half28 + low \div Base28, low % Base28>>

\* x + y of long numbers
addLong(x, y) ==
    <<x[1] + y[1] + (x[2] + y[2]) \div Base28, (x[2] + y[2]) % Base28>>

\* x <= y of long numbers
lessEqLong(x, y) == x[1] < y[1] \/ (x[1] = y[1] /\ x[2] <= y[2])

\* x*x + y*y + z*z of the vector a, a long number in units of 2^-52
squaredLength32(a) ==
    addLong(addLong(square28(Abs(a[1])), square28(Abs(a[2]))),
            square28(Abs(a[3])))

\* the largest root in low .. high - 1 with root * root <= len
RECURSIVE sqrtSearch32(_, _, _)
sqrtSearch32(len, low, high) ==
    IF high - low <= 1 THEN low
    ELSE CHOOSE root \in {IF lessEqLong(square28(mid), len)
                          THEN sqrtSearch32(len, mid, high)
                          ELSE sqrtSearch32(len, low, mid) :
                          mid \in {(low + high) \div 2}} : TRUE

\* Math.sqrt(len): the nearest number to the square root
sqrt32(len) ==
    CHOOSE root \in {IF lessEqLong(len, addLong(square28(f), <<0, f>>))
                     THEN f ELSE f + 1 :
                     f \in {sqrtSearch32(len, 0, Base28)}} : TRUE

\* bits more binary digits of the quotient q, remainder rem, of a division
\* by d: the pair of the quotient and the remainder
RECURSIVE divideBits(_, _, _, _)
divideBits(rem, d, q, bits) ==
    IF bits = 0 THEN <<q, rem>>
    ELSE IF 2 * rem >= d
         THEN divideBits(2 * rem - d, d, 2 * q + 1, bits - 1)
         ELSE divideBits(2 * rem, d, 2 * q, bits - 1)

\* the magnitude m times 1 / root, stored into a Float32Array
scaleMagnitude(m, root) ==
    CHOOSE x \in {froundParts(qr[1], 2 * qr[2] >= root,
                              qr[2] # 0 /\ 2 * qr[2] # root) :
                  qr \in {divideBits(m % root, root, m \div root, 26)}} : TRUE

\* a[i] * len of vec3.normalize, len = 1 / Math.sqrt(x*x + y*y + z*z)
scale32(n, root) ==
    IF n < 0 THEN 0 - scaleMagnitude(0 - n, root) ELSE scaleMagnitude(n, root)

\* the sum of two points halved, and not normalized
normalizeHalved(a) == <<a[1] \div 2, a[2] \div 2, a[3] \div 2>>

\* vec3.normalize(out, a): a scaled to length 1, and zeros when a is zero
normalize32(a) ==
    CHOOSE out \in {IF root = 0 THEN <<0, 0, 0>>
                    ELSE <<scale32(a[1], root), scale32(a[2], root),
                           scale32(a[3], root)>> :
                    root \in {sqrt32(squaredLength32(a))}} : TRUE

\* the four points of createSphereBuffers
initialA32 == fromValues32(0, 0, -1000000)
initialB32 == fromValues32(0, 942809, 333333)
initialC32 == fromValues32(-816497, -471405, 333333)
initialD32 == fromValues32(816497, -471405, 333333)

(***************************************************************************)
(* Page Module6: the sphere drawn from its buffers with the depth test.    *)
(***************************************************************************)
\* refineSphere of Module6
RECURSIVE refineSphere6(_, _, _, _, _)

refineLeaf6(v1, v2, v3, out, indexOffset) ==
    [vertices |-> out.vertices \o v1 \o v2 \o v3,
     indices  |-> out.indices \o <<indexOffset, indexOffset + 1, indexOffset + 2>>]

\* the recursive calls of Module6 with the middle child first
refineChildren6MiddleFirst(v1, v2, v3, mid12, mid23, mid31, depth, out) ==
    refineSphere6(v3, mid31, mid23, depth - 1,
        refineSphere6(v2, mid23, mid12, depth - 1,
            refineSphere6(v1, mid12, mid31, depth - 1,
                refineSphere6(mid12, mid23, mid31, depth - 1, out))))

refineChildren6(v1, v2, v3, mid12, mid23, mid31, depth, out) ==
    refineSphere6(mid12, mid23, mid31, depth - 1,
        refineSphere6(v3, mid31, mid23, depth - 1,
            refineSphere6(v2, mid23, mid12, depth - 1,
                refineSphere6(v1, mid12, mid31, depth - 1, out))))

refineSphere6(v1, v2, v3, depth, out) ==
    IF ByValue(out) /\ depth = 0
    THEN refineLeaf6(v1, v2, v3, out, Len(out.vertices) \div 3)
    ELSE refineChildren6(v1, v2, v3, normalize(add(v1, v2)),
                         normalize(add(v2, v3)), normalize(add(v3, v1)), depth, out)

\* the default of recursionLevel in Module6
DefaultLevel6 == 3

\* the starting vertices of the tetrahedron in Module6
initialA6 == fromValues(0, 0, -1000000)
initialB6 == fromValues(0, 942809, 333333)
initialC6 == fromValues(-816497, -471405, 333333)
initialD6 == fromValues(816497, -471405, 333333)

\* the second half of createSphereBuffers of Module6; the object it returns
\* has the buffers and no raw data
uploadSphere6(g, mesh) ==
    [gl  |-> bufferData(
                 bindBuffer(
                     createBuffer(
                         bufferData(
                             bindBuffer(createBuffer(g), "ARRAY_BUFFER",
                                        Len(g.buffers) + 1),
                             "ARRAY_BUFFER", Float32Array(mesh.vertices))),
                     "ELEMENT_ARRAY_BUFFER", Len(g.buffers) + 2),
                 "ELEMENT_ARRAY_BUFFER", Uint16Array(mesh.indices)),
     ret |-> [vertexBuffer |-> Len(g.buffers) + 1,
              indexBuffer |-> Len(g.buffers) + 2,
              indexCount |-> Len(mesh.indices)]]

\* the first half of createSphereBuffers of Module6
refineFaces6(recursionLevel) ==
    refineSphere6(initialA6, initialC6, initialD6, recursionLevel,
        refineSphere6(initialA6, initialD6, initialB6, recursionLevel,
            refineSphere6(initialD6, initialC6, initialB6, recursionLevel,
                refineSphere6(initialA6, initialB6, initialC6, recursionLevel,
                              [vertices |-> <<>>, indices |-> <<>>]))))

\* createSphereBuffers(glContext, recursionLevel) of Module6
createSphereBuffers6(g, recursionLevel) ==
    uploadSphere6(g, refineFaces6(recursionLevel))

\* gl.enable(gl.DEPTH_TEST); gl.enable(gl.CULL_FACE)
enableDepthAndCull(g) == [g EXCEPT !.depthTest = TRUE, !.cullFace = TRUE]

\* gl.drawElements(gl.TRIANGLES, count, gl.UNSIGNED_SHORT, 0): what the
\* context draws with
drawElements(g, count) ==
    [vertexBuffer |-> g.attrib, indexBuffer |-> g.elementArrayBuffer,
     count |-> count, depthTest |-> g.depthTest, cullFace |-> g.cullFace]

\* the draw of renderSphere() of Module6, with the index buffer bound
drawSphere6(g, buffers) ==
    [gl |-> g, drawLog |-> <<drawElements(g, buffers.indexCount)>>]

\* renderSphere() of Module6 up to requestAnimationFrame
renderSphere6(g, buffers) ==
    drawSphere6(bindBuffer(g, "ELEMENT_ARRAY_BUFFER", buffers.indexBuffer), buffers)

\* the state at the end of startWebGLApp() of Module6
started6(made, frame) ==
    /\ page = "Module6"
    /\ sphereBuffers = made.ret
    /\ sphereData = None
    /\ gl = frame.gl
    /\ frameVertices = None
    /\ frameIndices = None
    /\ triangles = None
    /\ drawLog = frame.drawLog
    /\ pendingFrames = 1
    /\ frameCount = 1
    /\ sliderCount = 0
    /\ lastLevel = DefaultLevel6
    /\ callArgs = None
    /\ callStack = None
    /\ arrays = None
    /\ generatorDepth = Number(DefaultLevel6)
    /\ console = <<>>
    /\ clickedSide = None
    /\ pinkColors = None
    /\ points = None
    /\ currentDepth = None
    /\ timeouts = None

firstFrame6(made) ==
    started6(made,
             renderSphere6(
                 enableDepthAndCull(
                     vertexAttribPointer(
                         bindBuffer(made.gl, "ARRAY_BUFFER", made.ret.vertexBuffer))),
                 made.ret))

\* setupShaders(glContext) of Module6
setupShaders6(g, status) == [g EXCEPT !.program = status]

\* startWebGLApp() of Module6 when initializeWebGLContext returns context
\* (None is null) and the program's state after setupShaders is status
startOutcome6(context, status) ==
    IF context = None
    THEN noContext("Module6",
                   "Sorry, it doesn't seem like WebGL is currently available on your system. Please install it and try again.")
    ELSE firstFrame6(createSphereBuffers6(setupShaders6(context, status),
                                          DefaultLevel6))

\* startWebGLApp() of Module6 with a context and shaders that work
startWebGLApp6 == startOutcome6(initializeWebGLContext, "linked")

\* the body of oninput without the assignment to sphereBuffers.indexCount
updateBuffers6NoCount(g, buffers, updatedBuffers) ==
    [gl |-> bindBuffer(
                vertexAttribPointer(
                    bindBuffer(g, "ARRAY_BUFFER", updatedBuffers.vertexBuffer)),
                "ELEMENT_ARRAY_BUFFER", updatedBuffers.indexBuffer),
     sphereBuffers |-> [buffers EXCEPT !.vertexBuffer = updatedBuffers.vertexBuffer,
                                       !.indexBuffer = updatedBuffers.indexBuffer]]

\* the body of subdivisionControl.oninput of Module6 after createSphereBuffers
\* returned updatedBuffers: the context and the sphereBuffers object after it
updateBuffers6(g, buffers, updatedBuffers) ==
    [gl |-> bindBuffer(
                vertexAttribPointer(
                    bindBuffer(g, "ARRAY_BUFFER", updatedBuffers.vertexBuffer)),
                "ELEMENT_ARRAY_BUFFER", updatedBuffers.indexBuffer),
     sphereBuffers |-> [buffers EXCEPT !.vertexBuffer = updatedBuffers.vertexBuffer,
                                       !.indexBuffer = updatedBuffers.indexBuffer,
                                       !.indexCount = updatedBuffers.indexCount]]

\* the calls of subdivisionControl.oninput of Module6, made the result of
\* createSphereBuffers
oninputMade6(buffers, made) == updateBuffers6(made.gl, buffers, made.ret)

\* subdivisionControl.oninput of Module6 with event.target.value in values
oninput6From(values) ==
    /\ page = "Module6"
    /\ gl # None
    /\ sliderCount < MaxEvents
    /\ \E value \in values :
          \E recursionLevel \in {parseInt(value)} :
              /\ generatorDepth' = recursionLevel
              /\ IF reachesBaseCase(recursionLevel)
                 THEN \E after \in
                          {oninputMade6(sphereBuffers,
                                        createSphereBuffers6(gl, recursionLevel[1]))} :
                          /\ sphereBuffers' = after.sphereBuffers
                          /\ gl' = after.gl
                          /\ lastLevel' = recursionLevel[1]
                 ELSE UNCHANGED <<sphereBuffers, gl, lastLevel>>
    /\ sliderCount' = sliderCount + 1
    /\ UNCHANGED <<page, sphereData, drawLog, frameVertices, frameIndices,
                   triangles, pendingFrames, frameCount, callArgs, callStack,
                   arrays, console,
                   clickedSide, pinkColors, points, currentDepth, timeouts>>

\* subdivisionControl.oninput of Module6, the slider at one of its steps
oninput6 == oninput6From(SliderSteps)

\* subdivisionControl.oninput of Module6, the value any string
oninputAny6 == oninput6From(SliderSteps \cup OtherValues)

\* the animation-frame callback of Module6: renderSphere()
animationFrame6 ==
    /\ page = "Module6"
    /\ pendingFrames > 0
    /\ frameCount < MaxFrames
    /\ \E frame \in {renderSphere6(gl, sphereBuffers)} :
           /\ gl' = frame.gl
           /\ drawLog' = frame.drawLog
    /\ pendingFrames' = requestAnimationFrame(pendingFrames - 1)
    /\ frameCount' = frameCount + 1
    /\ UNCHANGED <<page, sphereData, sphereBuffers, frameVertices, frameIndices,
                   triangles, sliderCount, lastLevel, callArgs, callStack,
                   arrays, generatorDepth, console,
                   clickedSide, pinkColors, points, currentDepth, timeouts>>

(***************************************************************************)
(* Page Picking (unnamed/part_000): the cube whose clicked side turns      *)
(* green.  The four camera sliders of the page change only the matrices    *)
(* of a frame and are left out.  Buffer 1 is the index buffer, 2 the       *)
(* vertex buffer, 3 the color buffer.                                      *)
(***************************************************************************)
\* the side of the canvas in pixels, on the page and in its drawing buffer
CanvasSize == 4

\* the canvas element: getBoundingClientRect() and the width and height
glCanvas == [left |-> 8, top |-> 8, width |-> CanvasSize, height |-> CanvasSize]

\* the click events on the canvas: a position inside its rectangle
Clicks ==
    {[clientX |-> glCanvas.left + dx, clientY |-> glCanvas.top + dy] :
         dx \in 0 .. CanvasSize, dy \in 0 .. CanvasSize}

\* the color of the four vertices of each side, in tenths
sideColors ==
    <<<<10, 5, 5>>, <<9, 4, 4>>, <<8, 3, 5>>, <<7, 5, 6>>, <<9, 5, 7>>,
      <<10, 6, 8>>>>

\* the array literal of pinkColors: twelve numbers a side
pinkColorsLiteral ==
    Array([j \in 1 .. 72 |->
               Micro(100000 * sideColors[((j - 1) \div 12) + 1][((j - 1) % 3) + 1])])

\* the array literal vertices of initBuffers
cubeVertices ==
    Array([j \in 1 .. 72 |->
        Micro(1000000 *
            <<-1, -1, 1, 1, -1, 1, 1, 1, 1, -1, 1, 1,
              -1, -1, -1, -1, 1, -1, 1, 1, -1, 1, -1, -1,
              -1, 1, -1, -1, 1, 1, 1, 1, 1, 1, 1, -1,
              -1, -1, -1, 1, -1, -1, 1, -1, 1, -1, -1, 1,
              1, -1, -1, 1, 1, -1, 1, 1, 1, 1, -1, 1,
              -1, -1, -1, -1, -1, 1, -1, 1, 1, -1, 1, -1>>[j])])

\* the array literal of the cube's indices: two triangles a side
cubeIndices ==
    Array([j \in 1 .. 36 |->
               4 * ((j - 1) \div 6) + <<0, 1, 2, 0, 2, 3>>[((j - 1) % 6) + 1]])

\* initBuffers(gl), with the global pinkColors as it is now
initBuffers(g, colors) ==
    bufferData(
        bindBuffer(
            createBuffer(
                bufferData(
                    bindBuffer(
                        createBuffer(
                            bufferData(
                                bindBuffer(createBuffer(g),
                                           "ELEMENT_ARRAY_BUFFER", Len(g.buffers) + 1),
                                "ELEMENT_ARRAY_BUFFER", Uint16Array(cubeIndices))),
                        "ARRAY_BUFFER", Len(g.buffers) + 2),
                    "ARRAY_BUFFER", Float32Array(cubeVertices))),
            "ARRAY_BUFFER", Len(g.buffers) + 3),
        "ARRAY_BUFFER", Float32Array(colors))

\* whichSideClicked with -1 for a position on no side
whichSideClickedOrNone(event, canvas) ==
    LET x == <<2 * (event.clientX - canvas.left) - canvas.width, canvas.width>>
        y == <<canvas.height - 2 * (event.clientY - canvas.top), canvas.height>>
    IN  IF Less(<<1, 2>>, x) THEN 4
        ELSE IF Less(x, <<0 - 1, 2>>) THEN 5
        ELSE IF Less(<<1, 2>>, y) THEN 2
        ELSE IF Less(y, <<0 - 1, 2>>) THEN 3
        ELSE IF /\ Less(<<0 - 1, 2>>, x) /\ Less(x, <<1, 2>>)
                /\ Less(<<0 - 1, 2>>, y) /\ Less(y, <<1, 2>>) THEN 0
        ELSE 0 - 1

\* whichSideClicked(event, canvas): x is (dx / width) * 2 - 1 and y is
\* -((dy / height) * 2 - 1), as the fractions (2 dx - width) / width and
\* (height - 2 dy) / height
whichSideClicked(event, canvas) ==
    LET x == <<2 * (event.clientX - canvas.left) - canvas.width, canvas.width>>
        y == <<canvas.height - 2 * (event.clientY - canvas.top), canvas.height>>
    IN  IF Less(<<1, 2>>, x) THEN 4
        ELSE IF Less(x, <<0 - 1, 2>>) THEN 5
        ELSE IF Less(<<1, 2>>, y) THEN 2
        ELSE IF Less(y, <<0 - 1, 2>>) THEN 3
        ELSE IF /\ Less(<<0 - 1, 2>>, x) /\ Less(x, <<1, 2>>)
                /\ Less(<<0 - 1, 2>>, y) /\ Less(y, <<1, 2>>) THEN 0
        ELSE 1

\* newColors[index] = value: an assignment past the end makes the array
\* longer, the elements between being empty (NaN once in a Float32Array)
setElement(arr, index, value) ==
    IF index < Len(arr)
    THEN [arr EXCEPT ![index + 1] = value]
    ELSE Array([j \in 1 .. index + 1 |->
                    IF j <= Len(arr) THEN arr[j]
                    ELSE IF j = index + 1 THEN value ELSE NaN])

\* the rounds i, i + 3, ... of the loop of highlightSide
RECURSIVE highlightLoop(_, _, _)
highlightLoop(newColors, startIndex, i) ==
    IF i < 12
    THEN highlightLoop(
             setElement(
                 setElement(setElement(newColors, startIndex + i, Micro(0)),
                            startIndex + i + 1, Micro(1000000)),
                 startIndex + i + 2, Micro(0)),
             startIndex, i + 3)
    ELSE newColors

\* the array newColors of highlightSide before the upload
highlighted(colors, side) ==
    IF side # 0 - 1 THEN highlightLoop(colors, side * 12, 0) ELSE colors

\* highlightSide that paints over what the color buffer holds
highlightSideOver(g, colors, colorBuffer, side) ==
    bufferData(bindBuffer(g, "ARRAY_BUFFER", colorBuffer), "ARRAY_BUFFER",
               Float32Array(highlighted(g.buffers[colorBuffer], side)))

\* highlightSide(gl, colorBuffer, clickedSide): the context after it;
\* colors is the global pinkColors
highlightSide(g, colors, colorBuffer, side) ==
    bufferData(bindBuffer(g, "ARRAY_BUFFER", colorBuffer), "ARRAY_BUFFER",
               Float32Array(highlighted(colors, side)))

\* render() of the picking page up to requestAnimationFrame
renderCube(g) ==
    [gl |-> bindBuffer(g, "ELEMENT_ARRAY_BUFFER", 1),
     drawLog |-> <<drawElements(bindBuffer(g, "ELEMENT_ARRAY_BUFFER", 1), 36)>>]

\* the state at the end of main(): frame is the first render()
startedPicking(frame) ==
    /\ page = "Picking"
    /\ gl = frame.gl
    /\ drawLog = frame.drawLog
    /\ pinkColors = pinkColorsLiteral
    /\ clickedSide = 0 - 1
    /\ pendingFrames = 1
    /\ frameCount = 1
    /\ sliderCount = 0
    /\ sphereData = None
    /\ sphereBuffers = None
    /\ frameVertices = None
    /\ frameIndices = None
    /\ triangles = None
    /\ lastLevel = 0
    /\ callArgs = None
    /\ callStack = None
    /\ arrays = None
    /\ generatorDepth = None
    /\ console = <<>>
    /\ points = None
    /\ currentDepth = None
    /\ timeouts = None

\* main() when initWebGL returns context (None is null)
mainOutcome(context) ==
    IF context = None
    THEN noContext("Picking",
                   "Sorry, it doesn't seem like WebGL is currently available on your system. Please install it and try again.")
    ELSE startedPicking(
             renderCube(
                 [vertexAttribPointer(
                      bindBuffer(
                          vertexAttribPointer(
                              bindBuffer(
                                  initBuffers(setupShaders(context, "linked"),
                                              pinkColorsLiteral),
                                  "ARRAY_BUFFER", 2)),
                          "ARRAY_BUFFER", 3))
                  EXCEPT !.depthTest = TRUE]))

\* main() of the picking page
main == mainOutcome(initializeWebGLContext)

\* the click listener of the canvas
click ==
    /\ page = "Picking"
    /\ gl # None
    /\ sliderCount < MaxEvents
    /\ \E event \in Clicks :
           \E faceIndex \in {whichSideClicked(event, glCanvas)} :
               IF faceIndex # 0 - 1
               THEN /\ clickedSide' = faceIndex
                    /\ gl' = highlightSide(gl, pinkColors, 3, faceIndex)
               ELSE UNCHANGED <<clickedSide, gl>>
    /\ sliderCount' = sliderCount + 1
    /\ UNCHANGED <<page, sphereData, sphereBuffers, drawLog, frameVertices,
                   frameIndices, triangles, pendingFrames, frameCount,
                   lastLevel, callArgs, callStack, arrays, generatorDepth,
                   console, pinkColors, points, currentDepth, timeouts>>

\* the animation-frame callback of the picking page: render()
animationFramePicking ==
    /\ page = "Picking"
    /\ pendingFrames > 0
    /\ frameCount < MaxFrames
    /\ \E frame \in {renderCube(gl)} :
           /\ gl' = frame.gl
           /\ drawLog' = frame.drawLog
    /\ pendingFrames' = requestAnimationFrame(pendingFrames - 1)
    /\ frameCount' = frameCount + 1
    /\ UNCHANGED <<page, sphereData, sphereBuffers, frameVertices, frameIndices,
                   triangles, sliderCount, lastLevel, callArgs, callStack,
                   arrays, generatorDepth, console, clickedSide, pinkColors,
                   points, currentDepth, timeouts>>

(***************************************************************************)
(* Page Gasket (Module4/webgl-cube.js, the function initialize): the       *)
(* Sierpinski gasket drawn level by level.  The numbers of this page are   *)
(* in units of 2^-26; every coordinate is a multiple of 1/64, so that the  *)
(* halving of sierpinskiT is exact.  drawLog holds every draw of the page, *)
(* in order, and gl.buffers every buffer it made.  The rotating cube that  *)
(* the same file draws in another function is left out.                    *)
(***************************************************************************)
\* const maxDepth = 5
maxDepth == 5

\* the array literal initialVertices
initialVertices ==
    <<literal32(-500000), literal32(-500000), literal32(500000),
      literal32(-500000), literal32(0), literal32(500000)>>

\* sierpinskiT(vertices, depth, points): the array points after the call
RECURSIVE sierpinskiT(_, _, _)
sierpinskiT(vertices, depth, pts) ==
    IF ByValue(pts) /\ depth = 0
    THEN pts \o vertices
    ELSE LET x1 == vertices[1]
             y1 == vertices[2]
             x2 == vertices[3]
             y2 == vertices[4]
             x3 == vertices[5]
             y3 == vertices[6]
             mid1 == <<(x1 + x2) \div 2, (y1 + y2) \div 2>>
             mid2 == <<(x2 + x3) \div 2, (y2 + y3) \div 2>>
             mid3 == <<(x1 + x3) \div 2, (y1 + y3) \div 2>>
         IN  sierpinskiT(mid3 \o mid2 \o <<x3, y3>>, depth - 1,
                 sierpinskiT(mid1 \o <<x2, y2>> \o mid2, depth - 1,
                     sierpinskiT(<<x1, y1>> \o mid1 \o mid3, depth - 1, pts)))

\* new Float32Array(points) of the gasket page
Float32Array32(arr) ==
    CHOOSE out \in {Array([i \in DOMAIN a |-> fround32(a[i])]) : a \in {arr}} : TRUE

\* a buffer is made, bound and filled with pts, the attribute is set to
\* read it, and drawArrays draws pts.length / 2 vertices: the context after
\* it and the draw
drawPoints(g, pts) ==
    [gl |-> vertexAttribPointer(
                bufferData(bindBuffer(createBuffer(g), "ARRAY_BUFFER",
                                      Len(g.buffers) + 1),
                           "ARRAY_BUFFER", Float32Array32(pts))),
     draw |-> [buffer |-> Len(g.buffers) + 1, count |-> Len(pts) \div 2]]

\* the end of animateGasket with <= for <
scheduleNextInclusive(depth, pending) ==
    IF depth <= maxDepth
    THEN [currentDepth |-> depth + 1, timeouts |-> Append(pending, 500)]
    ELSE [currentDepth |-> depth, timeouts |-> pending]

\* the end of animateGasket: if (currentDepth < maxDepth) { currentDepth++;
\* setTimeout(animateGasket, 500); }
scheduleNext(depth, pending) ==
    IF depth < maxDepth
    THEN [currentDepth |-> depth + 1, timeouts |-> Append(pending, 500)]
    ELSE [currentDepth |-> depth, timeouts |-> pending]

\* animateGasket(): points are cleared and filled for currentDepth, drawn,
\* and the next frame is scheduled; pending are the timeouts not yet run
animateGasket(g, depth, pending) ==
    [drawn |-> drawPoints(g, sierpinskiT(initialVertices, depth, <<>>)),
     points |-> sierpinskiT(initialVertices, depth, <<>>),
     next |-> scheduleNext(depth, pending)]

\* the state at the end of initialize(): first is the call animateGasket(),
\* pts the array points after sierpinskiT(initialVertices, 5, points), last
\* the draw that follows
startedGasket(first, pts, last) ==
    /\ page = "Gasket"
    /\ gl = last.gl
    /\ drawLog = <<first.drawn.draw, last.draw>>
    /\ points = pts
    /\ currentDepth = first.next.currentDepth
    /\ timeouts = first.next.timeouts
    /\ frameCount = 1
    /\ pendingFrames = 0
    /\ sliderCount = 0
    /\ sphereData = None
    /\ sphereBuffers = None
    /\ frameVertices = None
    /\ frameIndices = None
    /\ triangles = None
    /\ lastLevel = 0
    /\ callArgs = None
    /\ callStack = None
    /\ arrays = None
    /\ generatorDepth = None
    /\ console = <<>>
    /\ clickedSide = None
    /\ pinkColors = None

\* initialize() after its call of animateGasket()
afterFirstFrame(first, pts) ==
    startedGasket(first, pts, drawPoints(first.drawn.gl, pts))

\* initialize() when getContext returns context (None is null)
initializeOutcome(context) ==
    IF context = None
    THEN noContext("Gasket",
                   "Sorry, it doesn't seem like WebGL is currently available on your system. Please install it and try again.")
    ELSE \E first \in {animateGasket(setupShaders(context, "linked"), 0, <<>>)} :
             afterFirstFrame(first,
                             sierpinskiT(initialVertices, 5, first.points))

\* initialize() of the gasket page
initialize == initializeOutcome(initializeWebGLContext)

\* a timeout of 500 ms runs out: animateGasket()
timeout ==
    /\ page = "Gasket"
    /\ timeouts # None
    /\ timeouts # <<>>
    /\ \E frame \in {animateGasket(gl, currentDepth, Tail(timeouts))} :
           /\ gl' = frame.drawn.gl
           /\ drawLog' = Append(drawLog, frame.drawn.draw)
           /\ points' = frame.points
           /\ currentDepth' = frame.next.currentDepth
           /\ timeouts' = frame.next.timeouts
    /\ frameCount' = frameCount + 1
    /\ UNCHANGED <<page, sphereData, sphereBuffers, frameVertices, frameIndices,
                   triangles, pendingFrames, sliderCount, lastLevel, callArgs,
                   callStack, arrays, generatorDepth, console, clickedSide,
                   pinkColors>>

(***************************************************************************)
(* The program: one of the pages is loaded.                                *)
(***************************************************************************)
Init ==
    \/ startWebGLApp8
    \/ startWebGLApp6

Next ==
    \/ oninput8
    \/ animationFrame8
    \/ oninput6
    \/ animationFrame6

Spec == Init /\ [][Next]_vars

\* the pages with any string as the slider's value
\* the pages with a scheduler that invokes a pending callback eventually
\* the browser invokes a pending callback: the step of either page that runs
\* a frame, by what it does to the frame count
callbackInvoked ==
    /\ pendingFrames > 0
    /\ frameCount < MaxFrames
    /\ frameCount' = frameCount + 1

LoopSpec == Init /\ [][Next]_vars /\ WF_frameCount(callbackInvoked)

\* any of the four pages is loaded, with a context or without one
PagesInit ==
    \E context \in {initializeWebGLContext, None} :
        \/ startOutcome8(context, "linked")
        \/ startOutcome6(context, "linked")
        \/ mainOutcome(context)
        \/ initializeOutcome(context)

PagesNext ==
    \/ oninput8
    \/ animationFrame8
    \/ oninput6
    \/ animationFrame6
    \/ click
    \/ animationFramePicking
    \/ timeout

PagesSpec == PagesInit /\ [][PagesNext]_vars

\* a timeout that is pending runs out: the step of the gasket page, by what
\* it does to the frame count
timeoutElapsed ==
    /\ page = "Gasket"
    /\ timeouts # None
    /\ timeouts # <<>>
    /\ frameCount' = frameCount + 1

\* the pages with timers that run out
TimerSpec == PagesInit /\ [][PagesNext]_vars /\ WF_frameCount(timeoutElapsed)

SliderNext ==
    \/ oninputAny8
    \/ animationFrame8
    \/ oninputAny6
    \/ animationFrame6

SliderSpec == Init /\ [][SliderNext]_vars

\* the pages in any environment: getContext gives a context or null, and
\* the shaders compile and link or do not
Startup ==
    \E context \in {initializeWebGLContext, None} :
        \E status \in {"linked", "failed"} :
            \/ startOutcome8(context, status)
            \/ startOutcome6(context, status)

StartupSpec == Startup /\ [][Next]_vars

(***************************************************************************)
(* renderSphere on its own: the body of renderSphere() run once on a mesh  *)
(* of a few triangles, each one a base face of the tetrahedron.            *)
(***************************************************************************)
\* the four base faces in the order createSphereBuffers refines them
BaseFaces ==
    <<<<initialA, initialB, initialC>>, <<initialD, initialC, initialB>>,
      <<initialA, initialD, initialB>>, <<initialA, initialC, initialD>>>>

\* the arrays after one refineSphere call of depth 0 for each of the faces
RECURSIVE meshOfFaces(_, _)
meshOfFaces(faces, out) ==
    IF faces = <<>>
    THEN out
    ELSE meshOfFaces(Tail(faces),
                     refineSphere(Head(faces)[1], Head(faces)[2], Head(faces)[3],
                                  0, out))

\* the state before the call: made is the mesh in the form createSphereBuffers
\* returns it, and the page's triangleBuffer is the buffer made after it
renderInput(made) ==
    /\ page = "renderSphere"
    /\ sphereData = made.ret
    /\ sphereBuffers = None
    /\ gl = createBuffer(made.gl)
    /\ frameVertices = None
    /\ frameIndices = None
    /\ triangles = None
    /\ drawLog = None
    /\ pendingFrames = 0
    /\ frameCount = 0
    /\ sliderCount = 0
    /\ lastLevel = 0
    /\ callArgs = None
    /\ callStack = None
    /\ arrays = None
    /\ generatorDepth = None
    /\ console = <<>>
    /\ clickedSide = None
    /\ pinkColors = None
    /\ points = None
    /\ currentDepth = None
    /\ timeouts = None

RenderInit ==
    \E n \in 1 .. MaxTriangles :
        \E pick \in [1 .. n -> 1 .. 4] :
            renderInput(
                uploadSphere(initializeWebGLContext,
                             meshOfFaces([i \in 1 .. n |-> BaseFaces[pick[i]]],
                                         [vertices |-> <<>>, indices |-> <<>>])))

\* one call of renderSphere()
renderCall ==
    /\ page = "renderSphere"
    /\ frameCount = 0
    /\ \E frame \in {renderSphere(gl, sphereData)} :
           /\ gl' = frame.gl
           /\ frameVertices' = frame.vertices
           /\ frameIndices' = frame.indices
           /\ triangles' = frame.triangles
           /\ drawLog' = frame.drawLog
    /\ pendingFrames' = pendingFrames + 1
    /\ frameCount' = frameCount + 1
    /\ UNCHANGED <<page, sphereData, sphereBuffers, sliderCount, lastLevel,
                   callArgs, callStack, arrays, generatorDepth, console,
                   clickedSide, pinkColors, points, currentDepth, timeouts>>

RenderNext == renderCall

RenderSpec == RenderInit /\ [][RenderNext]_vars

(***************************************************************************)
(* refineSphere on its own, statement by statement: callStack holds the    *)
(* activations of the function, and arrays the two arrays every activation *)
(* appends to.  In an activation pc is 0 at the test of depth, k when the  *)
(* k-th recursive call is the next statement, and 5 at the end of the      *)
(* function.                                                               *)
(***************************************************************************)
\* the activation of refineSphere(v1, v2, v3, depth, vertices, indices) at
\* its first statement
enter(v1, v2, v3, depth) ==
    [v1 |-> v1, v2 |-> v2, v3 |-> v3, depth |-> depth, pc |-> 0,
     mid12 |-> None, mid23 |-> None, mid31 |-> None]

\* the recursive calls made with depth and not with depth - 1
recursiveCallSameDepth(f, k) ==
    CASE k = 1 -> enter(f.v1, f.mid12, f.mid31, f.depth)
      [] k = 2 -> enter(f.v2, f.mid23, f.mid12, f.depth)
      [] k = 3 -> enter(f.v3, f.mid31, f.mid23, f.depth)
      [] OTHER -> enter(f.mid12, f.mid23, f.mid31, f.depth)

\* the activation that the k-th recursive call of the activation f makes
recursiveCall(f, k) ==
    CASE k = 1 -> enter(f.v1, f.mid12, f.mid31, f.depth - 1)
      [] k = 2 -> enter(f.v2, f.mid23, f.mid12, f.depth - 1)
      [] k = 3 -> enter(f.v3, f.mid31, f.mid23, f.depth - 1)
      [] OTHER -> enter(f.mid12, f.mid23, f.mid31, f.depth - 1)

\* the midpoints with the first one written into the input point v1
midpointsInPlace(f) ==
    [f EXCEPT !.v1 = normalize(add(f.v1, f.v2)),
              !.mid12 = normalize(add(f.v1, f.v2)),
              !.mid23 = normalize(add(f.v2, f.v3)),
              !.mid31 = normalize(add(f.v3, f.v1)),
              !.pc = 1]

\* the three midpoints of the activation f, each in a vector of its own
\* (vec3.create())
midpoints(f) ==
    [f EXCEPT !.mid12 = normalize(add(f.v1, f.v2)),
              !.mid23 = normalize(add(f.v2, f.v3)),
              !.mid31 = normalize(add(f.v3, f.v1)),
              !.pc = 1]

\* the activation that runs
Top == callStack[Len(callStack)]

\* the caller's activations
Callers == SubSeq(callStack, 1, Len(callStack) - 1)

\* the points refineSphere is called with: the base faces, and a triple with
\* two opposite points (their midpoint is the zero vector)
Triples ==
    {BaseFaces[i] : i \in 1 .. 4}
        \cup {<<initialA, fromValues(0, 0, 1000000), initialB>>}

RefineInit ==
    /\ page = "refineSphere"
    /\ \E tri \in Triples : \E depth \in 0 .. MaxLevel :
           /\ callArgs = [v1 |-> tri[1], v2 |-> tri[2], v3 |-> tri[3],
                          depth |-> depth]
           /\ callStack = <<enter(tri[1], tri[2], tri[3], depth)>>
    /\ arrays = [vertices |-> <<>>, indices |-> <<>>]
    /\ sphereData = None
    /\ sphereBuffers = None
    /\ gl = None
    /\ frameVertices = None
    /\ frameIndices = None
    /\ triangles = None
    /\ drawLog = None
    /\ pendingFrames = 0
    /\ frameCount = 0
    /\ sliderCount = 0
    /\ lastLevel = 0
    /\ generatorDepth = None
    /\ console = <<>>
    /\ clickedSide = None
    /\ pinkColors = None
    /\ points = None
    /\ currentDepth = None
    /\ timeouts = None

\* if (depth === 0) { ...; return; }
refineBaseCase ==
    /\ page = "refineSphere"
    /\ callStack # <<>>
    /\ Top.pc = 0
    /\ Top.depth = 0
    /\ arrays' = refineLeaf(Top.v1, Top.v2, Top.v3, arrays,
                            Len(arrays.vertices) \div 3)
    /\ callStack' = Callers
    /\ UNCHANGED <<page, sphereData, sphereBuffers, drawLog, frameVertices,
                   frameIndices, triangles, gl, pendingFrames, frameCount,
                   sliderCount, lastLevel, callArgs, generatorDepth, console,
                   clickedSide, pinkColors, points, currentDepth, timeouts>>

\* depth is not 0: mid12, mid23 and mid31 are computed
refineMidpoints ==
    /\ page = "refineSphere"
    /\ callStack # <<>>
    /\ Top.pc = 0
    /\ Top.depth # 0
    /\ callStack' = Append(Callers, midpoints(Top))
    /\ UNCHANGED <<page, sphereData, sphereBuffers, drawLog, frameVertices,
                   frameIndices, triangles, gl, pendingFrames, frameCount,
                   sliderCount, lastLevel, callArgs, arrays, generatorDepth,
                   console,
                   clickedSide, pinkColors, points, currentDepth, timeouts>>

\* one of the four recursive calls: the caller resumes at the next statement
refineRecurse ==
    /\ page = "refineSphere"
    /\ callStack # <<>>
    /\ Top.pc \in 1 .. 4
    /\ callStack' = Append(Append(Callers, [Top EXCEPT !.pc = @ + 1]),
                           recursiveCall(Top, Top.pc))
    /\ UNCHANGED <<page, sphereData, sphereBuffers, drawLog, frameVertices,
                   frameIndices, triangles, gl, pendingFrames, frameCount,
                   sliderCount, lastLevel, callArgs, arrays, generatorDepth,
                   console,
                   clickedSide, pinkColors, points, currentDepth, timeouts>>

\* the end of the function after the fourth call
refineReturn ==
    /\ page = "refineSphere"
    /\ callStack # <<>>
    /\ Top.pc = 5
    /\ callStack' = Callers
    /\ UNCHANGED <<page, sphereData, sphereBuffers, drawLog, frameVertices,
                   frameIndices, triangles, gl, pendingFrames, frameCount,
                   sliderCount, lastLevel, callArgs, arrays, generatorDepth,
                   console,
                   clickedSide, pinkColors, points, currentDepth, timeouts>>

RefineNext ==
    \/ refineBaseCase
    \/ refineMidpoints
    \/ refineRecurse
    \/ refineReturn

\* a call that has started runs on: JavaScript runs a function to its end
RefineSpec == RefineInit /\ [][RefineNext]_vars /\ WF_vars(RefineNext)

(***************************************************************************)
(* refineSphere run statement by statement on the four faces that          *)
(* createSphereBuffers gives it, its numbers with the precision of         *)
(* Float32.                                                                *)
(***************************************************************************)
\* the four calls of createSphereBuffers
BaseFaces32 ==
    <<<<initialA32, initialB32, initialC32>>, <<initialD32, initialC32, initialB32>>,
      <<initialA32, initialD32, initialB32>>, <<initialA32, initialC32, initialD32>>>>

\* the three midpoints of the activation f
midpoints32(f) ==
    [f EXCEPT !.mid12 = normalize32(add32(f.v1, f.v2)),
              !.mid23 = normalize32(add32(f.v2, f.v3)),
              !.mid31 = normalize32(add32(f.v3, f.v1)),
              !.pc = 1]

GeneratorInit ==
    /\ page = "createSphereBuffers"
    /\ \E face \in 1 .. 4 : \E depth \in 0 .. MaxLevel :
           /\ callArgs = [v1 |-> BaseFaces32[face][1], v2 |-> BaseFaces32[face][2],
                          v3 |-> BaseFaces32[face][3], depth |-> depth]
           /\ callStack = <<enter(BaseFaces32[face][1], BaseFaces32[face][2],
                                  BaseFaces32[face][3], depth)>>
    /\ arrays = [vertices |-> <<>>, indices |-> <<>>]
    /\ sphereData = None
    /\ sphereBuffers = None
    /\ gl = None
    /\ frameVertices = None
    /\ frameIndices = None
    /\ triangles = None
    /\ drawLog = None
    /\ pendingFrames = 0
    /\ frameCount = 0
    /\ sliderCount = 0
    /\ lastLevel = 0
    /\ generatorDepth = None
    /\ console = <<>>
    /\ clickedSide = None
    /\ pinkColors = None
    /\ points = None
    /\ currentDepth = None
    /\ timeouts = None

\* if (depth === 0) { ...; return; }
generatorBaseCase ==
    /\ page = "createSphereBuffers"
    /\ callStack # <<>>
    /\ Top.pc = 0
    /\ Top.depth = 0
    /\ arrays' = refineLeaf(Top.v1, Top.v2, Top.v3, arrays,
                            Len(arrays.vertices) \div 3)
    /\ callStack' = Callers
    /\ UNCHANGED <<page, sphereData, sphereBuffers, drawLog, frameVertices,
                   frameIndices, triangles, gl, pendingFrames, frameCount,
                   sliderCount, lastLevel, callArgs, generatorDepth, console,
                   clickedSide, pinkColors, points, currentDepth, timeouts>>

\* depth is not 0: mid12, mid23 and mid31 are computed
generatorMidpoints ==
    /\ page = "createSphereBuffers"
    /\ callStack # <<>>
    /\ Top.pc = 0
    /\ Top.depth # 0
    /\ callStack' = Append(Callers, midpoints32(Top))
    /\ UNCHANGED <<page, sphereData, sphereBuffers, drawLog, frameVertices,
                   frameIndices, triangles, gl, pendingFrames, frameCount,
                   sliderCount, lastLevel, callArgs, arrays, generatorDepth,
                   console,
                   clickedSide, pinkColors, points, currentDepth, timeouts>>

\* one of the four recursive calls
generatorRecurse ==
    /\ page = "createSphereBuffers"
    /\ callStack # <<>>
    /\ Top.pc \in 1 .. 4
    /\ callStack' = Append(Append(Callers, [Top EXCEPT !.pc = @ + 1]),
                           recursiveCall(Top, Top.pc))
    /\ UNCHANGED <<page, sphereData, sphereBuffers, drawLog, frameVertices,
                   frameIndices, triangles, gl, pendingFrames, frameCount,
                   sliderCount, lastLevel, callArgs, arrays, generatorDepth,
                   console,
                   clickedSide, pinkColors, points, currentDepth, timeouts>>

\* the end of the function after the fourth call
generatorReturn ==
    /\ page = "createSphereBuffers"
    /\ callStack # <<>>
    /\ Top.pc = 5
    /\ callStack' = Callers
    /\ UNCHANGED <<page, sphereData, sphereBuffers, drawLog, frameVertices,
                   frameIndices, triangles, gl, pendingFrames, frameCount,
                   sliderCount, lastLevel, callArgs, arrays, generatorDepth,
                   console,
                   clickedSide, pinkColors, points, currentDepth, timeouts>>

GeneratorNext ==
    \/ generatorBaseCase
    \/ generatorMidpoints
    \/ generatorRecurse
    \/ generatorReturn

GeneratorSpec == GeneratorInit /\ [][GeneratorNext]_vars

(***************************************************************************)
(* The index buffer of large meshes.  A mesh of depth 6 or 7 is followed   *)
(* one triangle at a time: the base case of refineSphere runs when before  *)
(* triangles are in the arrays already, and createSphereBuffers uploads    *)
(* what the base case appended.                                            *)
(***************************************************************************)
MaxIndexLevel == 7

\* the number of triangles of the mesh of depth d
RECURSIVE triangleCount(_)
triangleCount(d) == IF d = 0 THEN 4 ELSE 4 * triangleCount(d - 1)

\* the triangles followed in a mesh of count triangles: the first and last
\* ones, some in between, and the two around index 2^16
followed(count) ==
    {k \in {0, 1, count \div 4, count \div 2, (3 * count) \div 4, count - 2,
            count - 1, 21844, 21845} : k < count}

IndexInit ==
    /\ page = "indexBuffer"
    /\ \E depth \in 0 .. MaxIndexLevel :
           \E before \in followed(triangleCount(depth)) :
               callArgs = [depth |-> depth, before |-> before]
    /\ arrays = None
    /\ gl = initializeWebGLContext
    /\ sphereBuffers = None
    /\ sphereData = None
    /\ callStack = None
    /\ frameVertices = None
    /\ frameIndices = None
    /\ triangles = None
    /\ drawLog = None
    /\ pendingFrames = 0
    /\ frameCount = 0
    /\ sliderCount = 0
    /\ lastLevel = 0
    /\ generatorDepth = None
    /\ console = <<>>
    /\ clickedSide = None
    /\ pinkColors = None
    /\ points = None
    /\ currentDepth = None
    /\ timeouts = None

\* the base case of refineSphere when vertices holds before triangles (nine
\* numbers each): indexOffset is vertices.length / 3.  The arrays keep what
\* this call appends.
indexBaseCase ==
    /\ page = "indexBuffer"
    /\ arrays = None
    /\ arrays' = refineLeaf6(initialA6, initialB6, initialC6,
                             [vertices |-> <<>>, indices |-> <<>>],
                             (9 * callArgs.before) \div 3)
    /\ UNCHANGED <<page, sphereData, sphereBuffers, drawLog, frameVertices,
                   frameIndices, triangles, gl, pendingFrames, frameCount,
                   sliderCount, lastLevel, callArgs, callStack, generatorDepth,
                   console,
                   clickedSide, pinkColors, points, currentDepth, timeouts>>

\* the second half of createSphereBuffers
indexUpload ==
    /\ page = "indexBuffer"
    /\ arrays # None
    /\ sphereBuffers = None
    /\ \E made \in {uploadSphere6(gl, arrays)} :
           /\ gl' = made.gl
           /\ sphereBuffers' = made.ret
    /\ UNCHANGED <<page, sphereData, drawLog, frameVertices, frameIndices,
                   triangles, pendingFrames, frameCount, sliderCount, lastLevel,
                   callArgs, callStack, arrays, generatorDepth, console,
                   clickedSide, pinkColors, points, currentDepth, timeouts>>

IndexNext ==
    \/ indexBaseCase
    \/ indexUpload

IndexSpec == IndexInit /\ [][IndexNext]_vars

(***************************************************************************)
(* Properties.                                                             *)
(***************************************************************************)
RECURSIVE Pow4(_)
Pow4(d) == IF d = 0 THEN 1 ELSE 4 * Pow4(d - 1)

\* the page Module8 is loaded
Painter == page = "Module8"

\* triangle number k (from 0) of a mesh: the nine numbers its indices name
MeshTriangle(vertices, indices, k) ==
    LET vec(idx) == <<At(vertices, idx), At(vertices, idx + 1), At(vertices, idx + 2)>>
    IN  vec(At(indices, 3 * k) * 3) \o vec(At(indices, 3 * k + 1) * 3)
        \o vec(At(indices, 3 * k + 2) * 3)

\* C1: the mesh of level d has 4 * 4^d triangles: 3 * 4 * 4^d indices and as
\* many vertex entries (three flat numbers each), none shared
C1_TriangleCount ==
    Painter =>
        /\ Len(sphereData.indices) = 3 * 4 * Pow4(lastLevel)
        /\ Len(sphereData.vertices) = 3 * Len(sphereData.indices)
        /\ sphereData.indexCount = Len(sphereData.indices)

C1_Witness ==
    /\ Painter
    /\ lastLevel = 1
    /\ sliderCount > 0
    /\ Len(sphereData.indices) = 3 * 16
    /\ Len(sphereData.vertices) = 3 * 48

\* the k-th leaf (from 0) below the triangle tri at the given depth: the
\* leaves of the first child come first, then those of the second, ...
RECURSIVE LeafBelow(_, _, _)
LeafBelow(tri, depth, k) ==
    IF depth = 0
    THEN tri
    ELSE LET q == Pow4(depth - 1)
             mid12 == normalize(add(tri[1], tri[2]))
             mid23 == normalize(add(tri[2], tri[3]))
             mid31 == normalize(add(tri[3], tri[1]))
             child == CASE k \div q = 0 -> <<tri[1], mid12, mid31>>
                        [] k \div q = 1 -> <<tri[2], mid23, mid12>>
                        [] k \div q = 2 -> <<tri[3], mid31, mid23>>
                        [] OTHER        -> <<mid12, mid23, mid31>>
         IN  LeafBelow(child, depth - 1, k % q)

\* the k-th leaf of the depth-first traversal of the four base faces
LeafOfTraversal(depth, k) ==
    LeafBelow(BaseFaces[(k \div Pow4(depth)) + 1], depth, k % Pow4(depth))

\* C2: the k-th triangle of the mesh is the k-th leaf of the depth-first
\* traversal of the base faces (A,B,C), (D,C,B), (A,D,B), (A,C,D) with the
\* children in the order (v1, mid12, mid31), (v2, mid23, mid12),
\* (v3, mid31, mid23), (mid12, mid23, mid31)
C2_LeafOrder ==
    Painter =>
        \A k \in 0 .. (Len(sphereData.indices) \div 3) - 1 :
            LET leaf == LeafOfTraversal(lastLevel, k)
            IN  MeshTriangle(sphereData.vertices, sphereData.indices, k)
                    = leaf[1] \o leaf[2] \o leaf[3]

\* a mesh of level 2 whose triangles 6 and 9 (second and third grandchild
\* groups of the first face) are in place and differ
C2_Witness ==
    /\ Painter
    /\ lastLevel = 2
    /\ LET t6 == MeshTriangle(sphereData.vertices, sphereData.indices, 6)
           t9 == MeshTriangle(sphereData.vertices, sphereData.indices, 9)
           l6 == LeafOfTraversal(2, 6)
       IN  /\ t6 = l6[1] \o l6[2] \o l6[3]
           /\ t6 # t9

\* C3: the draws of a frame are in ascending avgDepth order, triangles of
\* equal avgDepth in the order of the mesh, and draw k submits the vertices
\* of the k-th sorted triangle
C3_DrawOrder ==
    Painter =>
        /\ Len(drawLog) = Len(triangles)
        /\ \A i \in 1 .. Len(triangles) :
               drawLog[i].vertices = triangles[i].vertices
        /\ \A i, j \in 1 .. Len(triangles) :
               i < j =>
                   /\ triangles[i].avgDepth <= triangles[j].avgDepth
                   /\ triangles[i].avgDepth = triangles[j].avgDepth
                          => triangles[i].src < triangles[j].src

\* a frame in which two neighbours have the same avgDepth, two others do
\* not, and the mesh order is not the depth order
C3_Witness ==
    /\ Painter
    /\ \E i \in 1 .. Len(triangles) - 1 :
           triangles[i].avgDepth = triangles[i + 1].avgDepth
    /\ \E i \in 1 .. Len(triangles) - 1 :
           triangles[i].avgDepth < triangles[i + 1].avgDepth
    /\ \E i \in 1 .. Len(triangles) - 1 :
           triangles[i].src > triangles[i + 1].src

\* C4: with n > 1 triangles, draw k (from 0) has the color (t, 0, 1 - t, 1)
\* with t = k / (n - 1): the first is (0,0,1,1), the last (1,0,0,1), and t
\* grows strictly along the draws
C4_Gradient ==
    (Painter /\ Len(drawLog) > 1) =>
        LET n == Len(drawLog)
            c(k) == drawLog[k + 1].color
        IN  /\ \A k \in 0 .. n - 1 :
                   /\ IsNumber(c(k)[1], k, n - 1)
                   /\ IsNumber(c(k)[2], 0, 1)
                   /\ IsNumber(c(k)[3], (n - 1) - k, n - 1)
                   /\ IsNumber(c(k)[4], 1, 1)
            /\ IsNumber(c(0)[1], 0, 1) /\ IsNumber(c(0)[3], 1, 1)
            /\ IsNumber(c(n - 1)[1], 1, 1) /\ IsNumber(c(n - 1)[3], 0, 1)
            /\ \A k \in 0 .. n - 2 : Less(c(k)[1], c(k + 1)[1])

C4_Witness ==
    /\ Painter
    /\ Len(drawLog) = 16
    /\ IsNumber(drawLog[6].color[1], 1, 3)
    /\ IsNumber(drawLog[16].color[1], 1, 1)

\* a frame of exactly one triangle has been rendered
SingleTriangleFrame == frameCount > 0 /\ Len(triangles) = 1

C6_DrawsArePermutation ==
    Painter =>
        LET n == Len(frameIndices) \div 3
        IN  /\ Len(drawLog) = n
            /\ Len(triangles) = n
            /\ {triangles[i].src : i \in 1 .. n} = 0 .. n - 1
            /\ \A i \in 1 .. n :
                   drawLog[i].vertices
                       = MeshTriangle(frameVertices, frameIndices, triangles[i].src)

\* a frame after a slider event whose sort moved triangles
C6_Witness ==
    /\ Painter
    /\ sliderCount > 0
    /\ frameCount > 1
    /\ Len(drawLog) = 16
    /\ \E i \in 1 .. Len(triangles) : triangles[i].src # i - 1

\* the next step is a frame of the painter page
FrameStep == Painter /\ frameCount' = frameCount + 1

\* C7: a frame enumerates the mesh that is current when it starts, and only
\* it: 4 * 4^d draws for the level d of the last depth change, 256 without
\* one (level 3); nothing of the frame before is left
C7_FrameUsesCurrentMesh ==
    /\ Painter => (frameCount = 1 /\ sliderCount = 0 => Len(drawLog) = 256)
    /\ [][FrameStep =>
             /\ Len(drawLog') = 4 * Pow4(lastLevel)
             /\ sliderCount = 0 => Len(drawLog') = 256
             /\ frameVertices' = sphereData.vertices
             /\ frameIndices' = sphereData.indices
             /\ \A i \in 1 .. Len(drawLog') :
                    drawLog'[i].vertices
                        = MeshTriangle(sphereData.vertices, sphereData.indices,
                                       triangles'[i].src)]_vars

\* a frame with the 4 draws of level 0 after a frame with the 256 of level 3
C7_Witness ==
    /\ Painter
    /\ frameCount > 1
    /\ lastLevel = 0
    /\ Len(drawLog) = 4
    /\ frameVertices = sphereData.vertices

\* the meshes of the levels the page can have asked for
Levels == (0 .. MaxLevel) \cup {DefaultLevel, DefaultLevel6}

\* C8: what a frame draws with comes from one completed generation call: in
\* Module8 the frame's vertices and indices, in Module6 the buffer the
\* position attribute reads, the index buffer and the index count
C8_OneGeneration ==
    /\ Painter =>
           \E d \in Levels :
               /\ frameVertices = refineFaces(d).vertices
               /\ frameIndices = refineFaces(d).indices
    /\ page = "Module6" =>
           \E d \in Levels :
               /\ drawLog[1].indexBuffer = drawLog[1].vertexBuffer + 1
               /\ gl.buffers[drawLog[1].vertexBuffer] = refineFaces6(d).vertices
               /\ gl.buffers[drawLog[1].indexBuffer] = refineFaces6(d).indices
               /\ drawLog[1].count = Len(refineFaces6(d).indices)

\* a frame of Module6 that draws the second generation of the page, made by
\* a slider event when the buffers of another level were in use
C8_Witness ==
    /\ page = "Module6"
    /\ sliderCount = 2
    /\ frameCount > 1
    /\ drawLog[1].vertexBuffer = 5
    /\ drawLog[1].count = 12
    /\ Len(gl.buffers[3]) = 3 * 48

\* C9: depth test and face culling are disabled at every draw of the
\* painter page
C9_NoDepthTestNoCulling ==
    Painter =>
        \A i \in 1 .. Len(drawLog) :
            /\ drawLog[i].depthTest = FALSE
            /\ drawLog[i].cullFace = FALSE

C9_Witness ==
    /\ Painter
    /\ sliderCount > 0
    /\ frameCount > 2
    /\ Len(drawLog) > 0
    /\ ~gl.depthTest
    /\ ~gl.cullFace

\* the call of refineSphere has returned
Returned == callStack = <<>>

\* C10: refineSphere terminates for every depth >= 0 and every three points:
\* an activation made by a recursive call has the depth of its caller minus
\* one, so the activations with depth 0 are those at nesting depth; the base
\* case appends one triangle and returns; and the call returns
C10_RefineTerminates ==
    /\ [](\A i \in 1 .. Len(callStack) :
              /\ callStack[i].depth = callArgs.depth - (i - 1)
              /\ callStack[i].depth >= 0
              /\ callStack[i].depth = 0 <=> i = callArgs.depth + 1)
    /\ [][(callStack # <<>> /\ Top.depth = 0) =>
              /\ callStack' = Callers
              /\ Len(arrays'.indices) = Len(arrays.indices) + 3
              /\ Len(arrays'.vertices) = Len(arrays.vertices) + 9]_vars
    /\ <>Returned

\* a call of depth 2 has returned with its 16 triangles, the arrays that the
\* function refineSphere gives
C10_Witness ==
    /\ page = "refineSphere"
    /\ Returned
    /\ callArgs.depth = 2
    /\ Len(arrays.indices) = 3 * 16
    /\ arrays = refineSphere(callArgs.v1, callArgs.v2, callArgs.v3, callArgs.depth,
                             [vertices |-> <<>>, indices |-> <<>>])

\* C11: the generator is started only with a depth from which its recursion
\* comes to the base case: a negative value, or NaN from parseInt, is
\* clamped or rejected before createSphereBuffers is called
C11_DepthValidated == generatorDepth # None => reachesBaseCase(generatorDepth)

\* a slider event of the painter page after which createSphereBuffers has
\* been called with -1 or with NaN
C11_InvalidDepthReachesGenerator ==
    /\ page = "Module8"
    /\ sliderCount > 0
    /\ \/ generatorDepth = Number(0 - 1)
       \/ IsNaN(generatorDepth)

\* the number of vertex entries (of three numbers each) in the array vertices
VertexEntries(a) == Len(a.vertices) \div 3

\* C12: a base case appends the index triple (n, n + 1, n + 2), n the number
\* of vertex entries before the append; so the length of indices is always a
\* multiple of 3 and every index is smaller than the number of vertex entries
C12_IndexTriples ==
    /\ [][(callStack # <<>> /\ Top.pc = 0 /\ Top.depth = 0) =>
              arrays'.indices = arrays.indices \o
                  <<VertexEntries(arrays), VertexEntries(arrays) + 1,
                    VertexEntries(arrays) + 2>>]_vars
    /\ [](/\ Len(arrays.indices) % 3 = 0
          /\ Len(arrays.vertices) % 3 = 0
          /\ \A i \in 1 .. Len(arrays.indices) :
                 arrays.indices[i] >= 0 /\ arrays.indices[i] < VertexEntries(arrays))

\* a call in progress that has appended its third triangle, (6, 7, 8)
C12_Witness ==
    /\ page = "refineSphere"
    /\ callStack # <<>>
    /\ Len(arrays.indices) = 9
    /\ SubSeq(arrays.indices, 7, 9) = <<6, 7, 8>>
    /\ VertexEntries(arrays) = 9

\* startWebGLApp() found no context
NoContext == page \in {"Module8", "Module6"} /\ gl = None

\* C13: without a context the error is reported once and the page stops: no
\* shader setup, no mesh generation, no draw, no animation-frame callback
\* and no slider handler, in any state afterwards
C13_NoContextStops ==
    NoContext =>
        /\ Len(console) = 1
        /\ generatorDepth = None
        /\ sphereData = None
        /\ sphereBuffers = None
        /\ drawLog = <<>>
        /\ pendingFrames = 0
        /\ frameCount = 0
        /\ sliderCount = 0
        /\ ~ENABLED Next

\* the painter page after a start without a context
C13_Witness ==
    /\ page = "Module8"
    /\ gl = None
    /\ Len(console) = 1
    /\ pendingFrames = 0

\* the shaders did not compile or the program did not link
ShaderFailure == gl # None /\ gl.program = "failed"

\* C14: a shader compile or link failure is fatal at startup: it is
\* reported, initialization is aborted, and no draw call and no render loop
\* run with the failed program
C14_ShaderFailureFatal ==
    ShaderFailure =>
        /\ console # <<>>
        /\ sphereData = None
        /\ drawLog = <<>>
        /\ pendingFrames = 0

\* a page that draws in its loop with a failed program and no report
C14_DrawsWithFailedProgram ==
    /\ ShaderFailure
    /\ console = <<>>
    /\ clickedSide = None
    /\ pinkColors = None
    /\ points = None
    /\ currentDepth = None
    /\ timeouts = None
    /\ drawLog # <<>>
    /\ pendingFrames > 0
    /\ frameCount > 0

\* startWebGLApp() reached its first renderSphere(): the loop has started
LoopStarted == page \in {"Module8", "Module6"} /\ gl # None

\* C15: once the loop has started exactly one animation-frame callback is
\* pending between frames, no step (frame or slider event) makes the number
\* of pending callbacks grow, and with a scheduler that invokes pending
\* callbacks every frame is followed by the next one
C15_OneCallbackPending ==
    /\ [](LoopStarted => pendingFrames = 1)
    /\ [][pendingFrames' <= pendingFrames]_vars
    /\ \A k \in 0 .. MaxFrames - 1 :
           (LoopStarted /\ frameCount = k) ~> (frameCount = k + 1)

\* all the frames have run, slider events between them, one callback pending
C15_Witness ==
    /\ LoopStarted
    /\ frameCount = MaxFrames
    /\ sliderCount = MaxEvents
    /\ pendingFrames = 1

\* the sequence a is the beginning of the sequence b
IsPrefix(a, b) == Len(a) <= Len(b) /\ SubSeq(b, 1, Len(a)) = a

\* the input points of the activation f
InputPoints(f) == <<f.v1, f.v2, f.v3>>

\* C16: refineSphere only appends to vertices and indices (what they held
\* before a step is still there, at the same positions, after it), and the
\* input points of every activation, the outermost call's included, are the
\* same after each step as before it
C16_AppendOnly ==
    /\ [][/\ IsPrefix(arrays.vertices, arrays'.vertices)
          /\ IsPrefix(arrays.indices, arrays'.indices)
          /\ \A i \in 1 .. Len(callStack) :
                 i <= Len(callStack') =>
                     InputPoints(callStack'[i]) = InputPoints(callStack[i])]_vars
    /\ [](page = "refineSphere" /\ callStack # <<>> =>
              InputPoints(callStack[1]) = InputPoints(callArgs))

\* a nested activation that has computed its midpoints after two triangles
\* were appended
C16_Witness ==
    /\ page = "refineSphere"
    /\ Len(callStack) >= 2
    /\ Top.mid12 # None
    /\ Len(arrays.vertices) >= 18
    /\ Len(arrays.indices) >= 6

\* a slider event of the painter page that generates the mesh again with
\* the depth of the mesh in use
Regenerated ==
    /\ Painter
    /\ sliderCount' = sliderCount + 1
    /\ reachesBaseCase(generatorDepth')
    /\ lastLevel' = lastLevel

DepthTwoFrame == Painter /\ frameIndices = refineFaces(2).indices

\* C18: a frame of the depth-2 mesh with the page's camera is 64 draw
\* commands, one per triangle in ascending order of avgDepth, the first with
\* the color (0,0,1,1) and the last with (1,0,0,1)
C18_DepthTwoFrame ==
    DepthTwoFrame =>
        /\ Len(drawLog) = 64
        /\ Len(triangles) = 64
        /\ \A i \in 1 .. 64 : drawLog[i].vertices = triangles[i].vertices
        /\ \A i \in 1 .. 63 : triangles[i].avgDepth <= triangles[i + 1].avgDepth
        /\ IsNumber(drawLog[1].color[1], 0, 1)
        /\ IsNumber(drawLog[1].color[2], 0, 1)
        /\ IsNumber(drawLog[1].color[3], 1, 1)
        /\ IsNumber(drawLog[1].color[4], 1, 1)
        /\ IsNumber(drawLog[64].color[1], 1, 1)
        /\ IsNumber(drawLog[64].color[2], 0, 1)
        /\ IsNumber(drawLog[64].color[3], 0, 1)
        /\ IsNumber(drawLog[64].color[4], 1, 1)

\* a frame of the depth-2 mesh, run after the slider was set to 2, whose
\* nearest and farthest triangles differ in depth
C18_Witness ==
    /\ DepthTwoFrame
    /\ lastLevel = 2
    /\ frameCount > 1
    /\ Len(drawLog) = 64
    /\ triangles[1].avgDepth < triangles[64].avgDepth

\* the vertex <<x, y, z>> is at distance 1 from the origin within 1e-5: its
\* squared length, in units of 2^-52, is within 335 * 2^28 of 2^52, that is
\* within 335 / 2^24 < 2e-5 - 1e-10 of 1
UnitLength(v) ==
    /\ lessEqLong(<<16777216 - 335, 0>>, squaredLength32(v))
    /\ lessEqLong(squaredLength32(v), <<16777216 + 335, 0>>)

\* C19: every vertex the generator has emitted, a base point or a normalized
\* midpoint, is at distance 1 from the origin within 1e-5, and so is every
\* midpoint an activation holds
C19_UnitLength ==
    page = "createSphereBuffers" =>
        /\ \A k \in 0 .. VertexEntries(arrays) - 1 :
               UnitLength(SubSeq(arrays.vertices, 3 * k + 1, 3 * k + 3))
        /\ \A i \in 1 .. Len(callStack) :
               callStack[i].mid12 # None =>
                   /\ UnitLength(callStack[i].mid12)
                   /\ UnitLength(callStack[i].mid23)
                   /\ UnitLength(callStack[i].mid31)

\* a call of depth 2 has returned: 16 triangles, midpoints of midpoints
\* among their vertices
C19_Witness ==
    /\ page = "createSphereBuffers"
    /\ callArgs.depth = 2
    /\ callStack = <<>>
    /\ VertexEntries(arrays) = 48
    /\ \E k \in 0 .. 47 :
           squaredLength32(SubSeq(arrays.vertices, 3 * k + 1, 3 * k + 3))
               # <<16777216, 0>>

\* the triangle followed was uploaded
Uploaded == page = "indexBuffer" /\ sphereBuffers # None

\* the index buffer after the upload
UploadedIndices == gl.buffers[sphereBuffers.indexBuffer]

\* C20: the uploaded indices are 16-bit numbers; for depths 0..6 they are
\* the generated ones, each naming a vertex of its own triangle, the largest
\* of the mesh being 12 * 4^depth - 1 <= 65535 (49151 at depth 6); from
\* depth 7 on the last triangle's indices are reduced modulo 2^16
C20_IndicesFit ==
    Uploaded =>
        LET depth == callArgs.depth
            k == callArgs.before
            last == triangleCount(depth) - 1
        IN  /\ \A j \in 1 .. 3 : UploadedIndices[j] \in 0 .. 65535
            /\ sphereBuffers.indexCount = 3
            /\ arrays.indices[3] <= 3 * last + 2
            /\ 3 * last + 2 = 12 * Pow4(depth) - 1
            /\ depth = 6 => 3 * last + 2 = 49151
            /\ depth <= 6 =>
                   /\ 3 * last + 2 <= 65535
                   /\ UploadedIndices = arrays.indices
                   /\ \A j \in 1 .. 3 : UploadedIndices[j] \div 3 = k
            /\ (depth >= 7 /\ k = last) =>
                   /\ 3 * last + 2 > 65535
                   /\ \A j \in 1 .. 3 : UploadedIndices[j] # arrays.indices[j]

\* the last triangle of the depth-6 mesh, uploaded with the largest index
C20_Witness ==
    /\ Uploaded
    /\ callArgs.depth = 6
    /\ callArgs.before = triangleCount(6) - 1
    /\ UploadedIndices = <<49149, 49150, 49151>>

\* C21: the two pages generate the same mesh: in every state the vertices
\* and indices that a page made for the level in use are the ones the other
\* page's generator makes for that level, and before the first slider event
\* the level is the default 3 on both pages
C21_SameGenerator ==
    /\ (page \in {"Module8", "Module6"} /\ sliderCount = 0) =>
           /\ lastLevel = 3
           /\ DefaultLevel = DefaultLevel6
    /\ Painter =>
           /\ sphereData.vertices = refineFaces6(lastLevel).vertices
           /\ sphereData.indices = refineFaces6(lastLevel).indices
           /\ gl.buffers[sphereData.vertexBuffer]
                  = Float32Array(refineFaces6(lastLevel).vertices)
           /\ gl.buffers[sphereData.indexBuffer]
                  = Uint16Array(refineFaces6(lastLevel).indices)
    /\ page = "Module6" =>
           /\ gl.buffers[sphereBuffers.vertexBuffer]
                  = Float32Array(refineFaces(lastLevel).vertices)
           /\ gl.buffers[sphereBuffers.indexBuffer]
                  = Uint16Array(refineFaces(lastLevel).indices)
           /\ sphereBuffers.indexCount = Len(refineFaces(lastLevel).indices)

\* the depth-tested page after the slider was set to 2: 64 triangles, made
\* by midpoints of midpoints
C21_Witness ==
    /\ page = "Module6"
    /\ sliderCount > 0
    /\ lastLevel = 2
    /\ sphereBuffers.indexCount = 3 * 64
    /\ Len(gl.buffers[sphereBuffers.vertexBuffer]) = 9 * 64

\* the picking page runs
Picking == page = "Picking" /\ gl # None

\* the color that the color buffer g.buffers[3] holds for vertex v (0..3) of
\* the side (0..5)
VertexColor(g, side, v) == SubSeq(g.buffers[3], 12 * side + 3 * v + 1,
                                  12 * side + 3 * v + 3)

\* the color of a side in the array literal of pinkColors, as a Float32Array
\* holds it
Pink(side) == Float32Array(SubSeq(pinkColorsLiteral, 12 * side + 1, 12 * side + 3))

Green == <<Micro(0), Micro(1000000), Micro(0)>>

\* the color buffer of g has the side green and the five others pink; with
\* side = -1 all six are pink
OneHighlight(g, side) ==
    /\ Len(g.buffers[3]) = 72
    /\ \A other \in 0 .. 5 : \A v \in 0 .. 3 :
           VertexColor(g, other, v) = IF other = side THEN Green ELSE Pink(other)

\* C22: in every state of the picking page the color buffer has the side
\* of the latest click green (4 vertices) and the other sides pink (20
\* vertices, or all 24 before the first click), pinkColors is the array it
\* was at the start, and a click on another side makes the side clicked
\* before pink again
C22_OneHighlightedSide ==
    /\ [](Picking => /\ OneHighlight(gl, clickedSide)
                     /\ pinkColors = pinkColorsLiteral)
    /\ [][(Picking /\ clickedSide # 0 - 1 /\ clickedSide' # clickedSide) =>
              /\ \A v \in 0 .. 3 : VertexColor(gl, clickedSide, v) = Green
              /\ \A v \in 0 .. 3 : VertexColor(gl', clickedSide, v) = Pink(clickedSide)
              /\ \A v \in 0 .. 3 : VertexColor(gl', clickedSide', v) = Green]_vars

\* two clicks and frames between them, the front side green
C22_Witness ==
    /\ Picking
    /\ sliderCount = 2
    /\ frameCount > 1
    /\ clickedSide = 0
    /\ VertexColor(gl, 0, 3) = Green
    /\ VertexColor(gl, 4, 0) = Pink(4)

\* C23: whichSideClicked gives a side in 0..5 for every click, so that
\* every click sets clickedSide and uploads the colors again; clickedSide is
\* -1 exactly before the first click, and the indices that highlightSide
\* writes are inside the 72 colors
C23_EveryClickHighlights ==
    /\ [](Picking =>
              /\ clickedSide \in (0 - 1) .. 5
              /\ (clickedSide = 0 - 1) <=> (sliderCount = 0)
              /\ Len(gl.buffers[3]) = 72
              /\ \A event \in Clicks :
                     /\ whichSideClicked(event, glCanvas) \in 0 .. 5
                     /\ Len(highlighted(pinkColors,
                                        whichSideClicked(event, glCanvas))) = 72)
    /\ [][(Picking /\ sliderCount' = sliderCount + 1) =>
              /\ clickedSide' \in 0 .. 5
              /\ \E event \in Clicks :
                     clickedSide' = whichSideClicked(event, glCanvas)
              /\ gl'.arrayBuffer = 3
              /\ gl'.buffers[3] = Float32Array(highlighted(pinkColors, clickedSide'))
              /\ 12 * clickedSide' + 11 < Len(pinkColors)]_vars

\* a click that none of the five tests of whichSideClicked catches: side 1
C23_Witness ==
    /\ Picking
    /\ sliderCount = 1
    /\ clickedSide = 1
    /\ OneHighlight(gl, 1)

\* the gasket page runs
Gasket == page = "Gasket" /\ gl # None

RECURSIVE Pow3(_)
Pow3(d) == IF d = 0 THEN 1 ELSE 3 * Pow3(d - 1)

\* the draw of the animation frame number n (from 1): the first draw of the
\* page is frame 1, the second is the draw at the end of initialize
FrameDraw(n) == IF n = 1 THEN drawLog[1] ELSE drawLog[n + 1]

\* C24: the animation has at most six frames, frame n drawing the gasket of
\* depth n - 1; currentDepth is at most maxDepth; one timeout of 500 ms is
\* pending after each of the first five frames and none after the sixth;
\* and with timers that run out the sixth frame is reached and nothing is
\* pending after it
C24_SixFrames ==
    /\ [](Gasket =>
              /\ frameCount \in 1 .. 6
              /\ currentDepth \in 0 .. maxDepth
              /\ Len(drawLog) = frameCount + 1
              /\ \A n \in 1 .. frameCount :
                     /\ FrameDraw(n).count = 3 * Pow3(n - 1)
                     /\ gl.buffers[FrameDraw(n).buffer]
                            = sierpinskiT(initialVertices, n - 1, <<>>)
              /\ Len(timeouts) <= 1
              /\ frameCount < 6 => (timeouts = <<500>> /\ currentDepth = frameCount)
              /\ frameCount = 6 => (timeouts = <<>> /\ currentDepth = maxDepth))
    /\ [][Gasket => Len(timeouts') <= Len(timeouts)]_vars
    /\ Gasket ~> (frameCount = 6 /\ timeouts = <<>>)

\* the sixth frame has run: depth 5, 243 triangles, nothing pending
C24_Witness ==
    /\ Gasket
    /\ frameCount = 6
    /\ currentDepth = 5
    /\ timeouts = <<>>
    /\ drawLog[7].count = 3 * 243
    /\ Len(points) = 6 * 243

\* C25: at every draw of the gasket page the vertices drawn are those of
\* one subdivision level d: 3^d triangles, 6 * 3^d numbers
C25_OneLevelPerDraw ==
    Gasket =>
        \A i \in 1 .. Len(drawLog) :
            \E d \in 0 .. maxDepth :
                /\ drawLog[i].count = 3 * Pow3(d)
                /\ gl.buffers[drawLog[i].buffer]
                       = sierpinskiT(initialVertices, d, <<>>)

\* the draw at the end of initialize: the triangle of level 0, left in
\* points by the first frame, followed by the 243 triangles of level 5
C25_TwoLevelsDrawn ==
    /\ Gasket
    /\ drawLog[2].count = 3 * (1 + 243)
    /\ gl.buffers[drawLog[2].buffer]
           = initialVertices \o sierpinskiT(initialVertices, 5, <<>>)
====
